---- MODULE Spec2Model ----
(***************************************************************************)
(* State-machine model of the proven-stake program                         *)
(* (programs/proven-stake/src/lib.rs): one escrow factory, one challenge   *)
(* escrow followed over a single lifetime of its record, its participant   *)
(* records, its escrow vault and the token amounts moved out of the vault. *)
(*                                                                         *)
(* Every instruction is one action.  An instruction that returns an error  *)
(* leaves every account unchanged (the runtime discards the account        *)
(* writes of a failed instruction); the error it returns is computed by    *)
(* the <name>Result operator, whose checks are in the handler's order.     *)
(***************************************************************************)
EXTENDS Integers, FiniteSets, Sequences, TLC

\* ------------------------------------------------------------------ bounds
NumUsers == 3
MaxStake == 3
MaxDays  == 1
MaxStart == 1
MaxTime  == 3
\* Largest total_days for which required_days is compared with the ceiling.
MaxTotalDays == 40

\* ------------------------------------------------------- program constants
WIN_THRESHOLD_BPS == 8000
DEFAULT_DAY_LENGTH_SECONDS == 24 * 60 * 60
MAX_ID_LENGTH == 32

\* Integer widths.  The counters of the challenge are u32 and the amounts
\* u64 in the source; the model keeps 4 and 5 bits of them, so that the
\* largest values can be reached.
U32_MAX == 15
U64_MAX == 31

\* The build's overflow-checks setting, which decides what an overflowing
\* `+` or `*` does (TRUE: the program panics, FALSE: the result wraps).  It
\* is not fixed by the source and matters only where an operation overflows.
BuildChoices(overflows) == IF overflows THEN BOOLEAN ELSE {TRUE}

\* -------------------------------------------------------------- identities
UserNames == <<"u1", "u2", "u3", "u4", "u5", "u6">>
Users == {UserNames[i] : i \in 1..NumUsers}
AuthorityKeys == {"a0", "a1"}
TreasuryKeys  == {"t0", "t1"}
OracleKeys    == {"o0", "o1"}
CreatorKeys   == {"c0"}
NoKey == "-"

\* Inputs of the instructions.
StakeInputs     == {0, 1, MaxStake}
DaysInputs      == 0..MaxDays
StartInputs     == 0..MaxStart
IdLenInputs     == {0, 1, MAX_ID_LENGTH + 1}
DayLengthInputs == {-1, 0, 1}
\* Option<T>: None is the empty tuple, Some(x) the one-element tuple.
None == <<>>
Some(x) == <<x>>
Option(S) == {None} \cup {Some(x) : x \in S}

VARIABLES
    now,            \* Clock::get()?.unix_timestamp
    factory,        \* the EscrowFactory account
    challenge,      \* the ChallengeEscrow account
    participants,   \* the Participant accounts, by user
    vault,          \* the escrow vault token account
    payout_paid,    \* tokens moved from the vault to each user by claim_payout
    refund_paid,    \* tokens moved from the vault to each user by claim_refund
    treasury_paid   \* tokens moved from the vault to the treasury

vars == <<now, factory, challenge, participants, vault,
          payout_paid, refund_paid, treasury_paid>>

ledger == <<payout_paid, refund_paid, treasury_paid>>

\* --------------------------------------------------------------- accounts
ChallengeStatus == {"Created", "Started", "Ended", "Settled", "Cancelled"}

EscrowFactory(authority, treasury, oracle, count, day_length) ==
    [authority |-> authority, treasury |-> treasury, oracle |-> oracle,
     challenge_count |-> count, day_length_seconds |-> day_length]

NoChallenge(acct) ==
    [acct |-> acct, creator |-> NoKey, stake_amount |-> 0, total_days |-> 0,
     threshold_bps |-> 0, status |-> "Created", start_ts |-> 0, end_ts |-> 0,
     participant_count |-> 0, active_participants |-> 0, winner_count |-> 0,
     loser_count |-> 0, bonus_per_winner |-> 0, forfeited_amount |-> 0,
     remainder |-> 0, payouts_claimed_count |-> 0, remainder_claimed |-> 0]

NoParticipant(acct) ==
    [acct |-> acct, joined |-> FALSE, stake_deposited |-> 0, proof_days |-> 0,
     is_winner |-> FALSE, is_settled |-> FALSE, payout_claimed |-> FALSE,
     refund_claimed |-> FALSE]

\* ---------------------------------------------------------- pure functions
\* Mutant: the requirement rounded down.
required_days_Floor(total_days, threshold_bps) ==
    (total_days * threshold_bps) \div 10000

\* total_days is a u32 and threshold_bps a u16: the u64 product does not
\* saturate, and with threshold_bps <= 10000 the quotient fits the u32.
required_days(total_days, threshold_bps) ==
    (total_days * threshold_bps + 9999) \div 10000

\* ------------------------------------------------------------------- init
\* The state after initialize_factory: no challenge has been created yet.
Init ==
    /\ now = 0
    /\ factory = EscrowFactory("a0", "t0", "o0", 0, DEFAULT_DAY_LENGTH_SECONDS)
    /\ challenge = NoChallenge("none")
    /\ participants = [u \in Users |-> NoParticipant("none")]
    /\ vault = [acct |-> "none", amount |-> 0]
    /\ payout_paid = [u \in Users |-> 0]
    /\ refund_paid = [u \in Users |-> 0]
    /\ treasury_paid = 0

\* The wall clock advances.
Tick ==
    /\ now < MaxTime
    /\ now' = now + 1
    /\ UNCHANGED <<factory, challenge, participants, vault, ledger>>

\* ------------------------------------------------------------ update_factory
\* has_one = authority is checked with the accounts, before the handler.
UpdateFactoryResult(caller, new_day_length_seconds) ==
    IF caller # factory.authority THEN "Unauthorized"
    ELSE IF new_day_length_seconds # None /\ ~(new_day_length_seconds[1] > 0)
         THEN "InvalidDayLength"
    ELSE "Ok"

\* The factory account as the handler has written it when it returns,
\* whatever it returns: the three identities are assigned before the day
\* length is examined.  The runtime keeps these writes only when the
\* handler returns Ok.
UpdateFactoryWritten(caller, new_authority, new_treasury, new_oracle, new_day_length_seconds) ==
    IF UpdateFactoryResult(caller, new_day_length_seconds) = "Unauthorized"
    THEN factory
    ELSE [factory EXCEPT
            !.authority = IF new_authority # None THEN new_authority[1] ELSE @,
            !.treasury  = IF new_treasury # None THEN new_treasury[1] ELSE @,
            !.oracle    = IF new_oracle # None THEN new_oracle[1] ELSE @,
            !.day_length_seconds =
                IF new_day_length_seconds # None /\ new_day_length_seconds[1] > 0
                THEN new_day_length_seconds[1] ELSE @]

\* Mutant: the identities written before the day length is rejected are kept.
UpdateFactory_PartialWrite(caller, new_authority, new_treasury, new_oracle, new_day_length_seconds) ==
    IF UpdateFactoryResult(caller, new_day_length_seconds) # "Unauthorized"
    THEN /\ factory' = [factory EXCEPT
                !.authority = IF new_authority # None THEN new_authority[1] ELSE @,
                !.treasury  = IF new_treasury # None THEN new_treasury[1] ELSE @,
                !.oracle    = IF new_oracle # None THEN new_oracle[1] ELSE @,
                !.day_length_seconds =
                    IF UpdateFactoryResult(caller, new_day_length_seconds) = "Ok"
                            /\ new_day_length_seconds # None
                    THEN new_day_length_seconds[1] ELSE @]
         /\ UNCHANGED <<now, challenge, participants, vault, ledger>>
    ELSE UNCHANGED vars

\* Mutant: a new day length recomputes end_ts of the existing challenge.
UpdateFactory_RecomputeEnd(caller, new_authority, new_treasury, new_oracle, new_day_length_seconds) ==
    IF UpdateFactoryResult(caller, new_day_length_seconds) = "Ok"
    THEN /\ factory' = [factory EXCEPT
                !.authority = IF new_authority # None THEN new_authority[1] ELSE @,
                !.treasury  = IF new_treasury # None THEN new_treasury[1] ELSE @,
                !.oracle    = IF new_oracle # None THEN new_oracle[1] ELSE @,
                !.day_length_seconds =
                    IF new_day_length_seconds # None
                    THEN new_day_length_seconds[1] ELSE @]
         /\ challenge' =
                IF challenge.acct = "live" /\ new_day_length_seconds # None
                THEN [challenge EXCEPT !.end_ts =
                        challenge.start_ts
                            + (challenge.total_days * new_day_length_seconds[1])]
                ELSE challenge
         /\ UNCHANGED <<now, participants, vault, ledger>>
    ELSE UNCHANGED vars

UpdateFactory(caller, new_authority, new_treasury, new_oracle, new_day_length_seconds) ==
    IF UpdateFactoryResult(caller, new_day_length_seconds) = "Ok"
    THEN /\ factory' = [factory EXCEPT
                !.authority = IF new_authority # None THEN new_authority[1] ELSE @,
                !.treasury  = IF new_treasury # None THEN new_treasury[1] ELSE @,
                !.oracle    = IF new_oracle # None THEN new_oracle[1] ELSE @,
                !.day_length_seconds =
                    IF new_day_length_seconds # None
                    THEN new_day_length_seconds[1] ELSE @]
         /\ UNCHANGED <<now, challenge, participants, vault, ledger>>
    ELSE UNCHANGED vars

\* ---------------------------------------------------------- create_challenge
\* init of the challenge account and of its vault fails when either exists.
CreateChallengeResult(id_len, stake_amount, total_days, start_ts) ==
    IF challenge.acct # "none" \/ vault.acct # "none" THEN "AccountAlreadyInUse"
    ELSE IF ~(stake_amount > 0) THEN "InvalidAmount"
    ELSE IF ~(total_days > 0) THEN "InvalidDuration"
    ELSE IF ~(start_ts > now) THEN "InvalidStartTime"
    ELSE IF id_len = 0 THEN "ChallengeIdEmpty"
    ELSE IF ~(id_len <= MAX_ID_LENGTH) THEN "ChallengeIdTooLong"
    ELSE IF ~(factory.day_length_seconds > 0) THEN "InvalidDayLength"
    ELSE "Ok"

CreateChallenge(creator, id_len, stake_amount, total_days, start_ts) ==
    IF CreateChallengeResult(id_len, stake_amount, total_days, start_ts) = "Ok"
    THEN /\ challenge' = [NoChallenge("live") EXCEPT
                !.creator = creator,
                !.stake_amount = stake_amount,
                !.total_days = total_days,
                !.threshold_bps = WIN_THRESHOLD_BPS,
                !.status = "Created",
                !.start_ts = start_ts,
                !.end_ts = start_ts + (total_days * factory.day_length_seconds)]
         /\ vault' = [acct |-> "live", amount |-> 0]
         /\ factory' = [factory EXCEPT !.challenge_count = @ + 1]
         /\ UNCHANGED <<now, participants, ledger>>
    ELSE UNCHANGED vars

\* ------------------------------------------------------------ join_challenge
\* funded: whether the user's token account holds stake_amount, so that the
\* token transfer into the vault goes through.
\* Mutant: join_challenge with the participant account re-initialised when
\* it exists.
JoinChallengeResult_Rejoin(u, funded) ==
    IF challenge.acct # "live" THEN "AccountNotInitialized"
    ELSE IF vault.acct # "live" THEN "AccountNotInitialized"
    ELSE IF challenge.status # "Created" THEN "InvalidChallengeStatus"
    ELSE IF ~(now < challenge.start_ts) THEN "ChallengeStarted"
    ELSE IF ~funded THEN "InsufficientFunds"
    ELSE "Ok"

\* Mutant: join_challenge without the test of the clock against start_ts.
JoinChallengeResult_NoStartCheck(u, funded) ==
    IF challenge.acct # "live" THEN "AccountNotInitialized"
    ELSE IF participants[u].acct = "live" THEN "AccountAlreadyInUse"
    ELSE IF vault.acct # "live" THEN "AccountNotInitialized"
    ELSE IF challenge.status # "Created" THEN "InvalidChallengeStatus"
    ELSE IF ~funded THEN "InsufficientFunds"
    ELSE "Ok"

JoinChallengeResult(u, funded) ==
    IF challenge.acct # "live" THEN "AccountNotInitialized"
    ELSE IF participants[u].acct = "live" THEN "AccountAlreadyInUse"
    ELSE IF vault.acct # "live" THEN "AccountNotInitialized"
    ELSE IF challenge.status # "Created" THEN "InvalidChallengeStatus"
    ELSE IF ~(now < challenge.start_ts) THEN "ChallengeStarted"
    ELSE IF ~funded THEN "InsufficientFunds"
    ELSE "Ok"

\* What the call returns once the arithmetic is taken into account: the
\* token program rejects a transfer that overflows the vault's amount,
\* `participant_count += 1` is unchecked, and active_participants is added
\* to with checked_add.
JoinChallengeOutcome(u, funded, overflow_checks) ==
    IF JoinChallengeResult(u, funded) # "Ok" THEN JoinChallengeResult(u, funded)
    ELSE IF vault.amount + challenge.stake_amount > U64_MAX THEN "TokenOverflow"
    ELSE IF challenge.participant_count = U32_MAX /\ overflow_checks
         THEN "ProgramPanic"
    ELSE IF challenge.active_participants = U32_MAX THEN "MathOverflow"
    ELSE "Ok"

\* The tokens the transfer into the vault has moved when the handler
\* returns, whatever it returns: the transfer comes before the counters.
JoinChallengeTransferred(u, funded, overflow_checks) ==
    IF JoinChallengeOutcome(u, funded, overflow_checks)
            \in {"Ok", "ProgramPanic", "MathOverflow"}
    THEN challenge.stake_amount ELSE 0

JoinChallenge(u, funded) ==
    \E overflow_checks \in BuildChoices(challenge.participant_count = U32_MAX) :
        IF JoinChallengeOutcome(u, funded, overflow_checks) = "Ok"
        THEN /\ vault' = [vault EXCEPT !.amount = @ + challenge.stake_amount]
             /\ participants' = [participants EXCEPT ![u] =
                    [NoParticipant("live") EXCEPT
                        !.joined = TRUE,
                        !.stake_deposited = challenge.stake_amount]]
             /\ challenge' = [challenge EXCEPT
                    !.participant_count = (@ + 1) % (U32_MAX + 1),
                    !.active_participants = @ + 1]
             /\ UNCHANGED <<now, factory, ledger>>
        ELSE UNCHANGED vars

\* -------------------------------------------------------------- record_proof
\* Mutant: record_proof without the start of the time window.
RecordProofResult_NoStartCheck(oracle, u) ==
    IF challenge.acct # "live" \/ participants[u].acct # "live"
    THEN "AccountNotInitialized"
    ELSE IF ~(challenge.status = "Created" \/ challenge.status = "Started")
         THEN "InvalidChallengeStatus"
    ELSE IF ~(now <= challenge.end_ts) THEN "ChallengeEnded"
    ELSE IF ~participants[u].joined THEN "NotJoined"
    ELSE IF oracle # factory.oracle THEN "InvalidOracle"
    ELSE IF ~(participants[u].proof_days < challenge.total_days)
         THEN "MaxProofsReached"
    ELSE "Ok"

\* Mutant: record_proof without the cap on proof_days.
RecordProofResult_NoCap(oracle, u) ==
    IF challenge.acct # "live" \/ participants[u].acct # "live"
    THEN "AccountNotInitialized"
    ELSE IF ~(challenge.status = "Created" \/ challenge.status = "Started")
         THEN "InvalidChallengeStatus"
    ELSE IF ~(now >= challenge.start_ts) THEN "ChallengeNotStarted"
    ELSE IF ~(now <= challenge.end_ts) THEN "ChallengeEnded"
    ELSE IF ~participants[u].joined THEN "NotJoined"
    ELSE IF oracle # factory.oracle THEN "InvalidOracle"
    ELSE "Ok"

RecordProofResult(oracle, u) ==
    IF challenge.acct # "live" \/ participants[u].acct # "live"
    THEN "AccountNotInitialized"
    ELSE IF ~(challenge.status = "Created" \/ challenge.status = "Started")
         THEN "InvalidChallengeStatus"
    ELSE IF ~(now >= challenge.start_ts) THEN "ChallengeNotStarted"
    ELSE IF ~(now <= challenge.end_ts) THEN "ChallengeEnded"
    ELSE IF ~participants[u].joined THEN "NotJoined"
    ELSE IF oracle # factory.oracle THEN "InvalidOracle"
    ELSE IF ~(participants[u].proof_days < challenge.total_days)
         THEN "MaxProofsReached"
    ELSE "Ok"

\* Mutant: a proof for one user is credited to every participant.
RecordProof_AllParticipants(oracle, u) ==
    IF RecordProofResult(oracle, u) = "Ok"
    THEN /\ challenge' = [challenge EXCEPT
                !.status = IF @ = "Created" THEN "Started" ELSE @]
         /\ participants' = [v \in Users |->
                IF participants[v].acct = "live"
                THEN [participants[v] EXCEPT !.proof_days = @ + 1]
                ELSE participants[v]]
         /\ UNCHANGED <<now, factory, vault, ledger>>
    ELSE UNCHANGED vars

RecordProof(oracle, u) ==
    IF RecordProofResult(oracle, u) = "Ok"
    THEN /\ challenge' = [challenge EXCEPT
                !.status = IF @ = "Created" THEN "Started" ELSE @]
         /\ participants' = [participants EXCEPT ![u].proof_days = @ + 1]
         /\ UNCHANGED <<now, factory, vault, ledger>>
    ELSE UNCHANGED vars

\* ---------------------------------------------------------- settle_challenge
\* Mutant: settle_challenge without the status check.
SettleChallengeResult_NoStatusCheck(oracle) ==
    IF challenge.acct # "live" THEN "AccountNotInitialized"
    ELSE IF ~(now > challenge.end_ts) THEN "ChallengeNotEnded"
    ELSE IF oracle # factory.oracle THEN "InvalidOracle"
    ELSE "Ok"

\* Mutant: settle_challenge allowed at end_ts itself.
SettleChallengeResult_AtEnd(oracle) ==
    IF challenge.acct # "live" THEN "AccountNotInitialized"
    ELSE IF ~(challenge.status = "Created" \/ challenge.status = "Started")
         THEN "InvalidChallengeStatus"
    ELSE IF ~(now >= challenge.end_ts) THEN "ChallengeNotEnded"
    ELSE IF oracle # factory.oracle THEN "InvalidOracle"
    ELSE "Ok"

\* Mutant: settle_challenge for a challenge that has started only.
SettleChallengeResult_StartedOnly(oracle) ==
    IF challenge.acct # "live" THEN "AccountNotInitialized"
    ELSE IF challenge.status # "Started" THEN "InvalidChallengeStatus"
    ELSE IF ~(now > challenge.end_ts) THEN "ChallengeNotEnded"
    ELSE IF oracle # factory.oracle THEN "InvalidOracle"
    ELSE "Ok"

SettleChallengeResult(oracle) ==
    IF challenge.acct # "live" THEN "AccountNotInitialized"
    ELSE IF ~(challenge.status = "Created" \/ challenge.status = "Started")
         THEN "InvalidChallengeStatus"
    ELSE IF ~(now > challenge.end_ts) THEN "ChallengeNotEnded"
    ELSE IF oracle # factory.oracle THEN "InvalidOracle"
    ELSE "Ok"

SettleChallenge(oracle) ==
    IF SettleChallengeResult(oracle) = "Ok"
    THEN /\ challenge' = [challenge EXCEPT !.status = "Ended"]
         /\ UNCHANGED <<now, factory, participants, vault, ledger>>
    ELSE UNCHANGED vars

\* -------------------------------------------------------- settle_participant
\* Mutant: settle_participant without the is_settled latch.
SettleParticipantResult_NoLatch(oracle, u) ==
    IF challenge.acct # "live" \/ participants[u].acct # "live"
    THEN "AccountNotInitialized"
    ELSE IF challenge.status # "Ended" THEN "InvalidChallengeStatus"
    ELSE IF oracle # factory.oracle THEN "InvalidOracle"
    ELSE "Ok"

\* Mutant: settle_participant without the oracle check.
SettleParticipantResult_NoOracleCheck(oracle, u) ==
    IF challenge.acct # "live" \/ participants[u].acct # "live"
    THEN "AccountNotInitialized"
    ELSE IF challenge.status # "Ended" THEN "InvalidChallengeStatus"
    ELSE IF participants[u].is_settled THEN "AlreadySettled"
    ELSE "Ok"

SettleParticipantResult(oracle, u) ==
    IF challenge.acct # "live" \/ participants[u].acct # "live"
    THEN "AccountNotInitialized"
    ELSE IF challenge.status # "Ended" THEN "InvalidChallengeStatus"
    ELSE IF oracle # factory.oracle THEN "InvalidOracle"
    ELSE IF participants[u].is_settled THEN "AlreadySettled"
    ELSE "Ok"

\* The counter settle_participant adds 1 to, with an unchecked `+= 1`.
SettleParticipantCounter(u) ==
    IF participants[u].proof_days
            >= required_days(challenge.total_days, challenge.threshold_bps)
    THEN challenge.winner_count ELSE challenge.loser_count

SettleParticipantOutcome(oracle, u, overflow_checks) ==
    IF SettleParticipantResult(oracle, u) # "Ok"
    THEN SettleParticipantResult(oracle, u)
    ELSE IF SettleParticipantCounter(u) = U32_MAX /\ overflow_checks
         THEN "ProgramPanic"
    ELSE "Ok"

SettleParticipant(oracle, u) ==
    \E overflow_checks \in BuildChoices(
            SettleParticipantResult(oracle, u) = "Ok"
                /\ SettleParticipantCounter(u) = U32_MAX) :
        IF SettleParticipantOutcome(oracle, u, overflow_checks) = "Ok"
        THEN LET required == required_days(challenge.total_days, challenge.threshold_bps)
                 wins == participants[u].proof_days >= required
             IN /\ participants' = [participants EXCEPT
                        ![u].is_winner = IF wins THEN TRUE ELSE @,
                        ![u].is_settled = TRUE]
                /\ challenge' = [challenge EXCEPT
                        !.winner_count =
                            IF wins THEN (@ + 1) % (U32_MAX + 1) ELSE @,
                        !.loser_count =
                            IF wins THEN @ ELSE (@ + 1) % (U32_MAX + 1)]
                /\ UNCHANGED <<now, factory, vault, ledger>>
        ELSE UNCHANGED vars

\* ------------------------------------------------------- finalize_settlement
\* Mutant: finalize_settlement without the completeness check.
FinalizeSettlementResult_NoCompletenessCheck(oracle) ==
    IF challenge.acct # "live" THEN "AccountNotInitialized"
    ELSE IF challenge.status # "Ended" THEN "InvalidChallengeStatus"
    ELSE IF oracle # factory.oracle THEN "InvalidOracle"
    ELSE "Ok"

FinalizeSettlementResult(oracle) ==
    IF challenge.acct # "live" THEN "AccountNotInitialized"
    ELSE IF challenge.status # "Ended" THEN "InvalidChallengeStatus"
    ELSE IF oracle # factory.oracle THEN "InvalidOracle"
    ELSE IF challenge.winner_count + challenge.loser_count # challenge.participant_count
         THEN "SettlementIncomplete"
    ELSE "Ok"

\* Mutant: the bonus rounded up instead of down.
BonusPerWinner_RoundUp(losers_stakes, winner_count) ==
    (losers_stakes + winner_count - 1) \div winner_count

\* SCENARIO 3: winners split the losers' stakes.
BonusPerWinner(losers_stakes, winner_count) == losers_stakes \div winner_count

Remainder(losers_stakes, winner_count) == losers_stakes % winner_count

\* Mutant: SCENARIO 1 without recording the forfeited stakes.
FinalizeSettlement_NoForfeit(oracle) ==
    IF FinalizeSettlementResult(oracle) = "Ok"
    THEN LET losers_stakes == challenge.loser_count * challenge.stake_amount
         IN /\ challenge' =
                 IF challenge.winner_count = 0 \/ challenge.loser_count = 0
                 THEN [challenge EXCEPT
                        !.payouts_claimed_count = 0, !.remainder_claimed = 0,
                        !.bonus_per_winner = 0, !.remainder = 0,
                        !.forfeited_amount = 0,
                        !.status = "Settled"]
                 ELSE [challenge EXCEPT
                        !.payouts_claimed_count = 0, !.remainder_claimed = 0,
                        !.bonus_per_winner =
                            BonusPerWinner(losers_stakes, challenge.winner_count),
                        !.remainder =
                            Remainder(losers_stakes, challenge.winner_count),
                        !.forfeited_amount = 0,
                        !.status = "Settled"]
            /\ UNCHANGED <<now, factory, participants, vault, ledger>>
    ELSE UNCHANGED vars

\* The two products of finalize_settlement are unchecked u64
\* multiplications: a product beyond U64_MAX panics or wraps.
FinalizeSettlementOverflows ==
    \/ challenge.loser_count * challenge.stake_amount > U64_MAX
    \/ /\ challenge.winner_count = 0
       /\ challenge.participant_count * challenge.stake_amount > U64_MAX

FinalizeSettlementOutcome(oracle, overflow_checks) ==
    IF FinalizeSettlementResult(oracle) # "Ok"
    THEN FinalizeSettlementResult(oracle)
    ELSE IF FinalizeSettlementOverflows /\ overflow_checks THEN "ProgramPanic"
    ELSE "Ok"

FinalizeSettlement(oracle) ==
    IF \E overflow_checks \in BuildChoices(FinalizeSettlementOverflows) :
            FinalizeSettlementOutcome(oracle, overflow_checks) = "Ok"
    THEN LET losers_stakes ==
                (challenge.loser_count * challenge.stake_amount) % (U64_MAX + 1)
             total_stakes ==
                (challenge.participant_count * challenge.stake_amount)
                    % (U64_MAX + 1)
         IN /\ challenge' =
                 IF challenge.winner_count = 0
                 THEN [challenge EXCEPT
                        !.payouts_claimed_count = 0, !.remainder_claimed = 0,
                        !.forfeited_amount = total_stakes,
                        !.bonus_per_winner = 0, !.remainder = 0,
                        !.status = "Settled"]
                 ELSE IF challenge.loser_count = 0
                 THEN [challenge EXCEPT
                        !.payouts_claimed_count = 0, !.remainder_claimed = 0,
                        !.bonus_per_winner = 0, !.remainder = 0,
                        !.forfeited_amount = 0,
                        !.status = "Settled"]
                 ELSE [challenge EXCEPT
                        !.payouts_claimed_count = 0, !.remainder_claimed = 0,
                        !.bonus_per_winner =
                            BonusPerWinner(losers_stakes, challenge.winner_count),
                        !.remainder =
                            Remainder(losers_stakes, challenge.winner_count),
                        !.forfeited_amount = 0,
                        !.status = "Settled"]
            /\ UNCHANGED <<now, factory, participants, vault, ledger>>
    ELSE UNCHANGED vars

\* ---------------------------------------------------------- cancel_challenge
\* Mutant: cancel_challenge without the start-time check.
CancelChallengeResult_NoTimeCheck(creator) ==
    IF challenge.acct # "live" THEN "AccountNotInitialized"
    ELSE IF challenge.creator # creator THEN "Unauthorized"
    ELSE IF challenge.status # "Created" THEN "InvalidChallengeStatus"
    ELSE "Ok"

CancelChallengeResult(creator) ==
    IF challenge.acct # "live" THEN "AccountNotInitialized"
    ELSE IF challenge.creator # creator THEN "Unauthorized"
    ELSE IF challenge.status # "Created" THEN "InvalidChallengeStatus"
    ELSE IF ~(now < challenge.start_ts) THEN "ChallengeStarted"
    ELSE "Ok"

CancelChallenge(creator) ==
    IF CancelChallengeResult(creator) = "Ok"
    THEN /\ challenge' = [challenge EXCEPT !.status = "Cancelled"]
         /\ UNCHANGED <<now, factory, participants, vault, ledger>>
    ELSE UNCHANGED vars

\* -------------------------------------------------------------- claim_payout
\* The participant account is derived from the signer: the caller is the user.
\* Mutant: the dust test off by one.
PayoutDust_OffByOne == IF challenge.remainder_claimed <= challenge.remainder THEN 1 ELSE 0

\* Mutant: no claimer is given a unit of dust.
PayoutDust_Never == IF challenge.remainder_claimed < challenge.remainder THEN 0 ELSE 0

\* Mutant: a unit of dust to every claimer while there is a remainder.
PayoutDust_Always == IF challenge.remainder > 0 THEN 1 ELSE 0

PayoutDust == IF challenge.remainder_claimed < challenge.remainder THEN 1 ELSE 0

\* Mutant: the payout without the bonus.
PayoutAmount_StakeOnly == challenge.stake_amount + PayoutDust

PayoutAmount == challenge.stake_amount + (challenge.bonus_per_winner + PayoutDust)

\* Mutant: claim_payout without the payout_claimed latch.
ClaimPayoutResult_NoLatch(u) ==
    IF challenge.acct # "live" \/ participants[u].acct # "live" \/ vault.acct # "live"
    THEN "AccountNotInitialized"
    ELSE IF challenge.status # "Settled" THEN "ChallengeNotSettled"
    ELSE IF ~participants[u].is_settled THEN "NotSettled"
    ELSE IF ~participants[u].is_winner THEN "NotWinner"
    ELSE IF ~(challenge.payouts_claimed_count < challenge.winner_count)
         THEN "AllPayoutsClaimed"
    ELSE IF vault.amount < PayoutAmount THEN "InsufficientFunds"
    ELSE "Ok"

\* Mutant: claim_payout without the is_winner check.
ClaimPayoutResult_NoWinnerCheck(u) ==
    IF challenge.acct # "live" \/ participants[u].acct # "live" \/ vault.acct # "live"
    THEN "AccountNotInitialized"
    ELSE IF challenge.status # "Settled" THEN "ChallengeNotSettled"
    ELSE IF ~participants[u].is_settled THEN "NotSettled"
    ELSE IF participants[u].payout_claimed THEN "PayoutAlreadyClaimed"
    ELSE IF ~(challenge.payouts_claimed_count < challenge.winner_count)
         THEN "AllPayoutsClaimed"
    ELSE IF vault.amount < PayoutAmount THEN "InsufficientFunds"
    ELSE "Ok"

ClaimPayoutResult(u) ==
    IF challenge.acct # "live" \/ participants[u].acct # "live" \/ vault.acct # "live"
    THEN "AccountNotInitialized"
    ELSE IF challenge.status # "Settled" THEN "ChallengeNotSettled"
    ELSE IF ~participants[u].is_settled THEN "NotSettled"
    ELSE IF ~participants[u].is_winner THEN "NotWinner"
    ELSE IF participants[u].payout_claimed THEN "PayoutAlreadyClaimed"
    ELSE IF ~(challenge.payouts_claimed_count < challenge.winner_count)
         THEN "AllPayoutsClaimed"
    ELSE IF vault.amount < PayoutAmount THEN "InsufficientFunds"
    ELSE "Ok"

\* Mutant: the claim writes back the count it read, without its increment.
ClaimPayout_NoCount(u) ==
    IF ClaimPayoutResult(u) = "Ok"
    THEN /\ vault' = [vault EXCEPT !.amount = @ - PayoutAmount]
         /\ payout_paid' = [payout_paid EXCEPT ![u] = @ + PayoutAmount]
         /\ participants' = [participants EXCEPT ![u].payout_claimed = TRUE]
         /\ challenge' = [challenge EXCEPT
                !.remainder_claimed = @ + PayoutDust]
         /\ UNCHANGED <<now, factory, refund_paid, treasury_paid>>
    ELSE UNCHANGED vars

ClaimPayout(u) ==
    IF ClaimPayoutResult(u) = "Ok"
    THEN /\ vault' = [vault EXCEPT !.amount = @ - PayoutAmount]
         /\ payout_paid' = [payout_paid EXCEPT ![u] = @ + PayoutAmount]
         /\ participants' = [participants EXCEPT ![u].payout_claimed = TRUE]
         /\ challenge' = [challenge EXCEPT
                !.payouts_claimed_count = @ + 1,
                !.remainder_claimed = @ + PayoutDust]
         /\ UNCHANGED <<now, factory, refund_paid, treasury_paid>>
    ELSE UNCHANGED vars

\* Two claims that are not serialized on the challenge account, for two
\* users whose claims would each succeed in the current state: both
\* handlers read the challenge account as it is now, each transfers the
\* amount it computed from what it read (the second transfer needs the
\* vault to hold it, or the second claim fails and writes nothing), and
\* each writes back what it read plus its own increments.  The challenge
\* account is `mut` in ClaimPayout, so the runtime never runs two claims
\* of one challenge this way: the actions of the model are atomic.
UnserializedClaims ==
    LET successes == IF vault.amount - PayoutAmount >= PayoutAmount THEN 2 ELSE 1
    IN [successes |-> successes,
        payouts_claimed_count |-> challenge.payouts_claimed_count + 1,
        remainder_claimed |-> challenge.remainder_claimed + PayoutDust,
        dust_paid |-> successes * PayoutDust,
        paid |-> successes * PayoutAmount]

\* ---------------------------------------------------- claim_forfeited_stakes
\* Mutant: claim_forfeited_stakes without the treasury check.
ClaimForfeitedStakesResult_AnyCaller(treasury) ==
    IF challenge.acct # "live" \/ vault.acct # "live" THEN "AccountNotInitialized"
    ELSE IF challenge.status # "Settled" THEN "ChallengeNotSettled"
    ELSE IF challenge.winner_count # 0 THEN "HasWinners"
    ELSE IF ~(challenge.forfeited_amount > 0) THEN "NoForfeitedStakes"
    ELSE IF vault.amount < challenge.forfeited_amount THEN "InsufficientFunds"
    ELSE "Ok"

ClaimForfeitedStakesResult(treasury) ==
    IF challenge.acct # "live" \/ vault.acct # "live" THEN "AccountNotInitialized"
    ELSE IF challenge.status # "Settled" THEN "ChallengeNotSettled"
    ELSE IF challenge.winner_count # 0 THEN "HasWinners"
    ELSE IF ~(challenge.forfeited_amount > 0) THEN "NoForfeitedStakes"
    ELSE IF treasury # factory.treasury THEN "Unauthorized"
    ELSE IF vault.amount < challenge.forfeited_amount THEN "InsufficientFunds"
    ELSE "Ok"

ClaimForfeitedStakes(treasury) ==
    IF ClaimForfeitedStakesResult(treasury) = "Ok"
    THEN /\ vault' = [vault EXCEPT !.amount = @ - challenge.forfeited_amount]
         /\ treasury_paid' = treasury_paid + challenge.forfeited_amount
         /\ challenge' = [challenge EXCEPT !.forfeited_amount = 0]
         /\ UNCHANGED <<now, factory, participants, payout_paid, refund_paid>>
    ELSE UNCHANGED vars

\* -------------------------------------------------------------- claim_refund
\* The participant account is derived from the signer: the caller is the user.
\* Mutant: the refund is one unit short of the stake deposited.
RefundAmount_Short(u) == participants[u].stake_deposited - 1

RefundAmount(u) == participants[u].stake_deposited

\* Mutant: claim_refund without the refund_claimed latch.
ClaimRefundResult_NoLatch(u) ==
    IF challenge.acct # "live" \/ participants[u].acct # "live" \/ vault.acct # "live"
    THEN "AccountNotInitialized"
    ELSE IF challenge.status # "Cancelled" THEN "NotCancelled"
    ELSE IF ~participants[u].joined THEN "NotJoined"
    ELSE IF vault.amount < RefundAmount(u) THEN "InsufficientFunds"
    ELSE "Ok"

\* Mutant: claim_refund without the status check.
ClaimRefundResult_AnyStatus(u) ==
    IF challenge.acct # "live" \/ participants[u].acct # "live" \/ vault.acct # "live"
    THEN "AccountNotInitialized"
    ELSE IF ~participants[u].joined THEN "NotJoined"
    ELSE IF participants[u].refund_claimed THEN "AlreadyClaimed"
    ELSE IF vault.amount < RefundAmount(u) THEN "InsufficientFunds"
    ELSE "Ok"

\* Mutant: claim_refund accepted after settlement as well.
ClaimRefundResult_SettledToo(u) ==
    IF challenge.acct # "live" \/ participants[u].acct # "live" \/ vault.acct # "live"
    THEN "AccountNotInitialized"
    ELSE IF challenge.status \notin {"Cancelled", "Settled"} THEN "NotCancelled"
    ELSE IF ~participants[u].joined THEN "NotJoined"
    ELSE IF participants[u].refund_claimed THEN "AlreadyClaimed"
    ELSE IF vault.amount < RefundAmount(u) THEN "InsufficientFunds"
    ELSE "Ok"

ClaimRefundResult(u) ==
    IF challenge.acct # "live" \/ participants[u].acct # "live" \/ vault.acct # "live"
    THEN "AccountNotInitialized"
    ELSE IF challenge.status # "Cancelled" THEN "NotCancelled"
    ELSE IF ~participants[u].joined THEN "NotJoined"
    ELSE IF participants[u].refund_claimed THEN "AlreadyClaimed"
    ELSE IF vault.amount < RefundAmount(u) THEN "InsufficientFunds"
    ELSE "Ok"

ClaimRefund(u) ==
    IF ClaimRefundResult(u) = "Ok"
    THEN /\ vault' = [vault EXCEPT !.amount = @ - RefundAmount(u)]
         /\ refund_paid' = [refund_paid EXCEPT ![u] = @ + RefundAmount(u)]
         /\ participants' = [participants EXCEPT ![u].refund_claimed = TRUE]
         /\ UNCHANGED <<now, factory, challenge, payout_paid, treasury_paid>>
    ELSE UNCHANGED vars

\* --------------------------------------------------------- close_participant
\* Mutant: close_participant without the payout_claimed check.
CloseParticipantResult_NoPayoutCheck(authority, u, destination) ==
    IF challenge.acct # "live" \/ participants[u].acct # "live"
    THEN "AccountNotInitialized"
    ELSE IF u # destination THEN "Unauthorized"
    ELSE IF ~(authority = u \/ authority = challenge.creator) THEN "Unauthorized"
    ELSE IF challenge.status = "Settled" /\ ~participants[u].is_settled
         THEN "NotSettled"
    ELSE IF challenge.status = "Cancelled" /\ ~participants[u].refund_claimed
         THEN "RefundNotClaimed"
    ELSE IF challenge.status \notin {"Settled", "Cancelled"}
         THEN "ChallengeStillActive"
    ELSE IF challenge.active_participants = 0 THEN "MathOverflow"
    ELSE "Ok"

\* Mutant: close_participant without the refund_claimed check.
CloseParticipantResult_NoRefundCheck(authority, u, destination) ==
    IF challenge.acct # "live" \/ participants[u].acct # "live"
    THEN "AccountNotInitialized"
    ELSE IF u # destination THEN "Unauthorized"
    ELSE IF ~(authority = u \/ authority = challenge.creator) THEN "Unauthorized"
    ELSE IF challenge.status = "Settled" /\ ~participants[u].is_settled
         THEN "NotSettled"
    ELSE IF challenge.status = "Settled" /\ participants[u].is_winner
                /\ ~participants[u].payout_claimed
         THEN "PayoutNotClaimed"
    ELSE IF challenge.status \notin {"Settled", "Cancelled"}
         THEN "ChallengeStillActive"
    ELSE IF challenge.active_participants = 0 THEN "MathOverflow"
    ELSE "Ok"

CloseParticipantResult(authority, u, destination) ==
    IF challenge.acct # "live" \/ participants[u].acct # "live"
    THEN "AccountNotInitialized"
    ELSE IF u # destination THEN "Unauthorized"
    ELSE IF ~(authority = u \/ authority = challenge.creator) THEN "Unauthorized"
    ELSE IF challenge.status = "Settled" /\ ~participants[u].is_settled
         THEN "NotSettled"
    ELSE IF challenge.status = "Settled" /\ participants[u].is_winner
                /\ ~participants[u].payout_claimed
         THEN "PayoutNotClaimed"
    ELSE IF challenge.status = "Cancelled" /\ ~participants[u].refund_claimed
         THEN "RefundNotClaimed"
    ELSE IF challenge.status \notin {"Settled", "Cancelled"}
         THEN "ChallengeStillActive"
    ELSE IF challenge.active_participants = 0 THEN "MathOverflow"
    ELSE "Ok"

\* Mutant: close_participant closes the record and keeps the count.
CloseParticipant_KeepsCount(authority, u, destination) ==
    IF CloseParticipantResult(authority, u, destination) = "Ok"
    THEN /\ participants' = [participants EXCEPT ![u] = NoParticipant("closed")]
         /\ UNCHANGED <<now, factory, challenge, vault, ledger>>
    ELSE UNCHANGED vars

CloseParticipant(authority, u, destination) ==
    IF CloseParticipantResult(authority, u, destination) = "Ok"
    THEN /\ challenge' = [challenge EXCEPT !.active_participants = @ - 1]
         /\ participants' = [participants EXCEPT ![u] = NoParticipant("closed")]
         /\ UNCHANGED <<now, factory, vault, ledger>>
    ELSE UNCHANGED vars

\* -------------------------------------------------------- close_escrow_vault
\* Mutant: close_escrow_vault without the empty-vault check.
CloseEscrowVaultResult_NoEmptyCheck(creator) ==
    IF challenge.acct # "live" \/ vault.acct # "live" THEN "AccountNotInitialized"
    ELSE IF challenge.creator # creator THEN "Unauthorized"
    ELSE IF challenge.status = "Settled" /\ challenge.winner_count > 0
                /\ challenge.payouts_claimed_count # challenge.winner_count
         THEN "PendingWinnerPayouts"
    ELSE IF challenge.status = "Settled" /\ challenge.winner_count = 0
                /\ challenge.forfeited_amount # 0
         THEN "ForfeitedStakesUnclaimed"
    ELSE IF challenge.status \notin {"Settled", "Cancelled"}
         THEN "ChallengeStillActive"
    ELSE "Ok"

CloseEscrowVaultResult(creator) ==
    IF challenge.acct # "live" \/ vault.acct # "live" THEN "AccountNotInitialized"
    ELSE IF challenge.creator # creator THEN "Unauthorized"
    ELSE IF challenge.status = "Settled" /\ challenge.winner_count > 0
                /\ challenge.payouts_claimed_count # challenge.winner_count
         THEN "PendingWinnerPayouts"
    ELSE IF challenge.status = "Settled" /\ challenge.winner_count = 0
                /\ challenge.forfeited_amount # 0
         THEN "ForfeitedStakesUnclaimed"
    ELSE IF challenge.status \notin {"Settled", "Cancelled"}
         THEN "ChallengeStillActive"
    ELSE IF vault.amount # 0 THEN "EscrowNotEmpty"
    ELSE "Ok"

CloseEscrowVault(creator) ==
    IF CloseEscrowVaultResult(creator) = "Ok"
    THEN /\ vault' = [acct |-> "closed", amount |-> 0]
         /\ UNCHANGED <<now, factory, challenge, participants, ledger>>
    ELSE UNCHANGED vars

\* ----------------------------------------------------------- close_challenge
\* Mutant: close_challenge without the active_participants check.
CloseChallengeResult_NoParticipantsCheck(creator) ==
    IF challenge.acct # "live" THEN "AccountNotInitialized"
    ELSE IF challenge.creator # creator THEN "Unauthorized"
    ELSE IF challenge.status = "Settled" /\ challenge.winner_count > 0
                /\ challenge.payouts_claimed_count # challenge.winner_count
         THEN "PendingWinnerPayouts"
    ELSE IF challenge.status = "Settled" /\ challenge.winner_count > 0
                /\ challenge.remainder_claimed # challenge.remainder
         THEN "PendingRemainderDistribution"
    ELSE IF challenge.status = "Settled" /\ challenge.winner_count = 0
                /\ challenge.forfeited_amount # 0
         THEN "ForfeitedStakesUnclaimed"
    ELSE IF challenge.status \notin {"Settled", "Cancelled"}
         THEN "ChallengeStillActive"
    ELSE "Ok"

CloseChallengeResult(creator) ==
    IF challenge.acct # "live" THEN "AccountNotInitialized"
    ELSE IF challenge.creator # creator THEN "Unauthorized"
    ELSE IF challenge.status = "Settled" /\ challenge.winner_count > 0
                /\ challenge.payouts_claimed_count # challenge.winner_count
         THEN "PendingWinnerPayouts"
    ELSE IF challenge.status = "Settled" /\ challenge.winner_count > 0
                /\ challenge.remainder_claimed # challenge.remainder
         THEN "PendingRemainderDistribution"
    ELSE IF challenge.status = "Settled" /\ challenge.winner_count = 0
                /\ challenge.forfeited_amount # 0
         THEN "ForfeitedStakesUnclaimed"
    ELSE IF challenge.status \notin {"Settled", "Cancelled"}
         THEN "ChallengeStillActive"
    ELSE IF challenge.active_participants # 0 THEN "ParticipantsRemaining"
    ELSE "Ok"

CloseChallenge(creator) ==
    IF CloseChallengeResult(creator) = "Ok"
    THEN /\ challenge' = NoChallenge("closed")
         /\ UNCHANGED <<now, factory, participants, vault, ledger>>
    ELSE UNCHANGED vars

\* -------------------------------------------------------------------- inputs
\* update_factory: nothing, a shorter day, the three identities rotated, and
\* calls that carry an invalid day length.
KeySets == {<<"a0", "t0", "o0">>, <<"a1", "t1", "o1">>}

UpdateInputs ==
    {<<None, None, None, d>> : d \in Option(DayLengthInputs)}
        \cup {<<Some(k[1]), Some(k[2]), Some(k[3]), None>> : k \in KeySets}
        \cup {<<Some("a1"), Some("t1"), Some("o1"), Some(0)>>}

\* create_challenge: the valid arguments, and those with one invalid argument.
ValidCreateInputs ==
    {c \in IdLenInputs \X StakeInputs \X DaysInputs \X StartInputs :
        c[1] = 1 /\ c[2] > 0 /\ c[3] > 0 /\ c[4] > 0}

CreateInputs ==
    ValidCreateInputs
        \cup {<<i, 1, 1, 1>> : i \in IdLenInputs}
        \cup {<<1, 0, 1, 1>>, <<1, 1, 0, 1>>, <<1, 1, 1, 0>>}

\* The instructions of the program.
ProgramNext ==
    \/ \E caller \in AuthorityKeys, i \in UpdateInputs :
            UpdateFactory(caller, i[1], i[2], i[3], i[4])
    \/ \E creator \in CreatorKeys, c \in CreateInputs :
            CreateChallenge(creator, c[1], c[2], c[3], c[4])
    \/ \E u \in Users, funded \in BOOLEAN : JoinChallenge(u, funded)
    \/ \E oracle \in OracleKeys, u \in Users : RecordProof(oracle, u)
    \/ \E oracle \in OracleKeys : SettleChallenge(oracle)
    \/ \E oracle \in OracleKeys, u \in Users : SettleParticipant(oracle, u)
    \/ \E oracle \in OracleKeys : FinalizeSettlement(oracle)
    \/ \E u \in Users : ClaimPayout(u)
    \/ \E treasury \in TreasuryKeys : ClaimForfeitedStakes(treasury)
    \/ \E creator \in CreatorKeys \cup {"o0"} : CancelChallenge(creator)
    \/ \E u \in Users : ClaimRefund(u)
    \/ \E u \in Users :
         \E c \in {<<u, u>>, <<"c0", u>>, <<"o0", u>>, <<u, "c0">>} :
            CloseParticipant(c[1], u, c[2])
    \/ \E creator \in CreatorKeys \cup {"o0"} : CloseEscrowVault(creator)
    \/ \E creator \in CreatorKeys \cup {"o0"} : CloseChallenge(creator)

Next ==
    \/ Tick
    \/ ProgramNext

Spec == Init /\ [][Next]_vars

\* ------------------------------------------------------------ fair schedule
\* The registry after update_factory has set a day length of 1 second, so
\* that the clock of the model can pass the end of every challenge.
FairInit ==
    /\ now = 0
    /\ factory = EscrowFactory("a0", "t0", "o0", 0, 1)
    /\ challenge = NoChallenge("none")
    /\ participants = [u \in Users |-> NoParticipant("none")]
    /\ vault = [acct |-> "none", amount |-> 0]
    /\ payout_paid = [u \in Users |-> 0]
    /\ refund_paid = [u \in Users |-> 0]
    /\ treasury_paid = 0

\* The wall clock advances until it is past the latest end_ts a challenge
\* can have with a day length of 1.
FairTick ==
    /\ now < MaxStart + MaxDays + 1
    /\ now' = now + 1
    /\ UNCHANGED <<factory, challenge, participants, vault, ledger>>

FairNext ==
    \/ FairTick
    \/ ProgramNext

\* What each party does when scheduled: the oracle settles, a participant
\* claims what is owed and closes the record, the treasury claims the
\* forfeited stakes, the creator closes the challenge.
OracleStep ==
    \E oracle \in OracleKeys :
        \/ SettleChallenge(oracle)
        \/ \E u \in Users : SettleParticipant(oracle, u)
        \/ FinalizeSettlement(oracle)

ParticipantStep(u) ==
    \/ ClaimPayout(u)
    \/ ClaimRefund(u)
    \/ CloseParticipant(u, u, u)

TreasuryStep == \E treasury \in TreasuryKeys : ClaimForfeitedStakes(treasury)

CreatorStep == \E creator \in CreatorKeys : CloseChallenge(creator)

\* Time advances and every party eventually takes a step that stays
\* possible for it.
FairSpec ==
    /\ FairInit
    /\ [][FairNext]_vars
    /\ WF_vars(FairTick)
    /\ WF_vars(OracleStep)
    /\ \A u \in Users : WF_vars(ParticipantStep(u))
    /\ WF_vars(TreasuryStep)
    /\ WF_vars(CreatorStep)

\* A challenge that has been joined by so many users that its counters or
\* its vault are within two joins of their largest value: the state after
\* create_challenge and n calls of join_challenge by users other than
\* Users, with the registry's day length set to 1 before the creation.
OverflowStarts ==
    {<<n, s>> \in (0 .. U32_MAX) \X (StakeInputs \ {0}) :
        /\ n * s <= U64_MAX
        /\ \/ n >= U32_MAX - 1
           \/ (n + 2) * s > U64_MAX}

OverflowInit ==
    /\ now = 0
    /\ factory = EscrowFactory("a0", "t0", "o0", 1, 1)
    /\ \E st \in OverflowStarts :
        /\ challenge = [NoChallenge("live") EXCEPT
                !.creator = "c0",
                !.stake_amount = st[2],
                !.total_days = 1,
                !.threshold_bps = WIN_THRESHOLD_BPS,
                !.status = "Created",
                !.start_ts = MaxStart,
                !.end_ts = MaxStart + 1,
                !.participant_count = st[1],
                !.active_participants = st[1]]
        /\ vault = [acct |-> "live", amount |-> st[1] * st[2]]
    /\ participants = [u \in Users |-> NoParticipant("none")]
    /\ payout_paid = [u \in Users |-> 0]
    /\ refund_paid = [u \in Users |-> 0]
    /\ treasury_paid = 0

\* The users other than Users that participant_count counts, and those of
\* them settle_participant has counted.  Their records are not kept: while
\* the challenge is Ended no record has been closed, and the two numbers
\* follow from the counters.
OthersJoined ==
    challenge.participant_count
        - Cardinality({u \in Users : participants[u].joined})

OthersSettled ==
    challenge.winner_count + challenge.loser_count
        - Cardinality({u \in Users : participants[u].is_settled})

\* settle_participant for one of these users; wins is the outcome of its
\* comparison of proof_days with the requirement.
SettleOtherResult(oracle) ==
    IF challenge.acct # "live" THEN "AccountNotInitialized"
    ELSE IF challenge.status # "Ended" THEN "InvalidChallengeStatus"
    ELSE IF oracle # factory.oracle THEN "InvalidOracle"
    ELSE IF ~(OthersSettled < OthersJoined) THEN "AlreadySettled"
    ELSE "Ok"

SettleOther(oracle, wins) ==
    LET counter == IF wins THEN challenge.winner_count ELSE challenge.loser_count
    IN \E overflow_checks \in BuildChoices(counter = U32_MAX) :
        IF SettleOtherResult(oracle) = "Ok"
                /\ ~(counter = U32_MAX /\ overflow_checks)
        THEN /\ challenge' = [challenge EXCEPT
                    !.winner_count =
                        IF wins THEN (@ + 1) % (U32_MAX + 1) ELSE @,
                    !.loser_count =
                        IF wins THEN @ ELSE (@ + 1) % (U32_MAX + 1)]
             /\ UNCHANGED <<now, factory, participants, vault, ledger>>
        ELSE UNCHANGED vars

OverflowNext ==
    \/ Next
    \/ \E oracle \in OracleKeys, wins \in BOOLEAN : SettleOther(oracle, wins)

OverflowSpec == OverflowInit /\ [][OverflowNext]_vars

\* ================================================================== claims
Live == challenge.acct = "live"

RECURSIVE SumF(_, _)
SumF(f, S) ==
    IF S = {} THEN 0
    ELSE LET x == CHOOSE y \in S : TRUE IN f[x] + SumF(f, S \ {x})

StatusRank(status) ==
    CASE status = "Created" -> 0
      [] status = "Started" -> 1
      [] status = "Ended" -> 2
      [] status = "Settled" -> 3
      [] status = "Cancelled" -> 3

\* The instruction behind a change of status from `from` to `to`: it is
\* enabled in the state the step starts in, and the step has its effect.
TransitionBy(from, to) ==
    CASE <<from, to>> = <<"Created", "Started">> ->
            \E u \in Users :
                /\ RecordProofResult(factory.oracle, u) = "Ok"
                /\ participants'[u].proof_days = participants[u].proof_days + 1
      [] <<from, to>> \in {<<"Created", "Ended">>, <<"Started", "Ended">>} ->
            /\ SettleChallengeResult(factory.oracle) = "Ok"
            /\ participants' = participants
      [] <<from, to>> = <<"Ended", "Settled">> ->
            FinalizeSettlementResult(factory.oracle) = "Ok"
      [] <<from, to>> = <<"Created", "Cancelled">> ->
            CancelChallengeResult(challenge.creator) = "Ok"
      [] OTHER -> FALSE

\* C1: while the challenge record exists, every change of its status is one
\* of Created->Started (by record_proof), Created->Ended or Started->Ended (by
\* settle_challenge), Ended->Settled (by finalize_settlement), Created->
\* Cancelled (by cancel_challenge); each change moves strictly forward in the
\* order Created < Started < Ended < {Settled, Cancelled}, so no status is
\* entered again after it was left, and no step changes a Settled or
\* Cancelled status.
C1_StatusTransitions ==
    [][(Live /\ challenge'.acct = "live" /\ challenge'.status # challenge.status)
        => /\ TransitionBy(challenge.status, challenge'.status)
           /\ StatusRank(challenge'.status) > StatusRank(challenge.status)
           /\ challenge.status \notin {"Settled", "Cancelled"}]_vars

\* C1 witness: a challenge that went through Started and Ended is Settled,
\* and payouts have been claimed on it since.
C1_Witness ==
    /\ Live /\ challenge.status = "Settled"
    /\ challenge.payouts_claimed_count > 0
    /\ \E u \in Users : participants[u].acct = "live" /\ participants[u].proof_days > 0

SettledCustody ==
    (challenge.winner_count - challenge.payouts_claimed_count)
            * (challenge.stake_amount + challenge.bonus_per_winner)
        + (challenge.remainder - challenge.remainder_claimed)
        + challenge.forfeited_amount

AllClaimed ==
    IF challenge.winner_count > 0
    THEN challenge.payouts_claimed_count = challenge.winner_count
    ELSE challenge.forfeited_amount = 0

\* C2: in every state with status Settled the vault holds exactly
\* (winner_count - payouts_claimed_count) * (stake_amount + bonus_per_winner)
\* + (remainder - remainder_claimed) + forfeited_amount, and it holds nothing
\* once every winner has claimed (with no winners: once the treasury has).
C2_SettledCustodyBalance ==
    (Live /\ challenge.status = "Settled")
        => /\ vault.amount = SettledCustody
           /\ AllClaimed => vault.amount = 0

\* C2 witness: a Settled challenge with a dust remainder, some but not all
\* winners paid.
C2_Witness ==
    /\ Live /\ challenge.status = "Settled"
    /\ challenge.remainder > 0
    /\ challenge.payouts_claimed_count > 0
    /\ challenge.payouts_claimed_count < challenge.winner_count

JoinedStakes(refunded_too) ==
    SumF([u \in Users |->
            IF participants[u].acct = "live" /\ participants[u].joined
                  /\ (refunded_too \/ ~participants[u].refund_claimed)
            THEN participants[u].stake_deposited ELSE 0],
         Users)

\* C3 as stated: in every state whose status is not Settled, the vault holds
\* the sum of stake_deposited over the participant records that exist and
\* have joined.
C3_Original ==
    (Live /\ challenge.status # "Settled") => vault.amount = JoinedStakes(TRUE)

\* C3, amended: in every state whose status is not Settled, the vault holds
\* the sum of stake_deposited over the participant records that exist, have
\* joined and have not claimed their refund.
C3_UnsettledCustodyBalance ==
    (Live /\ challenge.status # "Settled") => vault.amount = JoinedStakes(FALSE)

\* C3 witness: a Cancelled challenge where one participant has been refunded
\* and still has a record, and another has not been refunded.
C3_Witness ==
    /\ Live /\ challenge.status = "Cancelled"
    /\ \E u, v \in Users :
        /\ participants[u].acct = "live" /\ participants[u].refund_claimed
        /\ participants[v].acct = "live" /\ ~participants[v].refund_claimed

\* C4: after finalize_settlement with winner_count > 0 and loser_count > 0,
\* winner_count * bonus_per_winner + remainder = loser_count * stake_amount,
\* 0 <= remainder < winner_count and forfeited_amount = 0.
C4_MixedConservation ==
    (Live /\ challenge.status = "Settled"
          /\ challenge.winner_count > 0 /\ challenge.loser_count > 0)
        => /\ challenge.winner_count * challenge.bonus_per_winner + challenge.remainder
                = challenge.loser_count * challenge.stake_amount
           /\ 0 <= challenge.remainder
           /\ challenge.remainder < challenge.winner_count
           /\ challenge.forfeited_amount = 0

\* C4 witness: finalize_settlement has run on a mixed outcome that leaves
\* both a bonus and a remainder, and nothing has been claimed yet.
C4_Witness ==
    /\ Live /\ challenge.status = "Settled"
    /\ challenge.winner_count > 0 /\ challenge.loser_count > 0
    /\ challenge.bonus_per_winner > 0 /\ challenge.remainder > 0
    /\ challenge.payouts_claimed_count = 0

DustReceivers ==
    {u \in Users :
        payout_paid[u] = challenge.stake_amount + challenge.bonus_per_winner + 1}

\* C5: on a Settled challenge every payout made is stake_amount +
\* bonus_per_winner plus 0 or 1 dust unit, the number of payouts that carried
\* a dust unit is remainder_claimed and never exceeds remainder, and once all
\* winner_count winners have claimed exactly `remainder` payouts carried it
\* and the bonus paid in total is loser_count * stake_amount.
C5_DustDistribution ==
    (Live /\ challenge.status = "Settled")
        => /\ \A u \in Users :
                payout_paid[u] \in
                    {0, challenge.stake_amount + challenge.bonus_per_winner,
                     challenge.stake_amount + challenge.bonus_per_winner + 1}
           /\ Cardinality(DustReceivers) = challenge.remainder_claimed
           /\ challenge.remainder_claimed <= challenge.remainder
           /\ Cardinality({u \in Users : payout_paid[u] > 0})
                = challenge.payouts_claimed_count
           /\ (challenge.winner_count > 0
                 /\ challenge.payouts_claimed_count = challenge.winner_count)
                => /\ Cardinality(DustReceivers) = challenge.remainder
                   /\ SumF(payout_paid, Users)
                        - challenge.winner_count * challenge.stake_amount
                        = challenge.loser_count * challenge.stake_amount

\* C5 witness: two winners have both claimed, one of them with the dust unit
\* and the other without.
C5_Witness ==
    /\ Live /\ challenge.status = "Settled"
    /\ challenge.winner_count >= 2
    /\ challenge.payouts_claimed_count = challenge.winner_count
    /\ challenge.remainder > 0
    /\ \E u, v \in Users : payout_paid[u] = payout_paid[v] + 1 /\ payout_paid[v] > 0

\* C6: claim_payout pays a participant at most once: once a participant has
\* been paid, claim_payout for that participant does not return Ok again (it
\* returns PayoutAlreadyClaimed while the participant's record exists) and no
\* step pays that participant anything more; the only step that changes
\* payouts_claimed_count or remainder_claimed of a Settled challenge is a
\* payout to a participant not paid before.
C6_PayoutAtMostOnce ==
    /\ [](\A u \in Users :
            payout_paid[u] > 0
                => /\ ClaimPayoutResult(u) # "Ok"
                   /\ (Live /\ vault.acct = "live" /\ participants[u].acct = "live")
                        => /\ participants[u].payout_claimed
                           /\ ClaimPayoutResult(u) = "PayoutAlreadyClaimed")
    /\ [][/\ \A u \in Users : payout_paid[u] > 0 => payout_paid'[u] = payout_paid[u]
          /\ (Live /\ challenge.status = "Settled" /\ challenge'.acct = "live"
                /\ <<challenge'.payouts_claimed_count, challenge'.remainder_claimed>>
                     # <<challenge.payouts_claimed_count, challenge.remainder_claimed>>)
                => \E u \in Users :
                        /\ payout_paid[u] = 0 /\ payout_paid'[u] > 0
                        /\ ~participants[u].payout_claimed
                        /\ participants'[u].payout_claimed]_vars

\* C6 witness: a paid winner whose record still exists, another winner still
\* unpaid, so that a repeated claim would find funds in the vault.
C6_Witness ==
    /\ Live /\ challenge.status = "Settled"
    /\ \E u, v \in Users :
        /\ participants[u].acct = "live" /\ participants[u].payout_claimed
        /\ payout_paid[u] > 0
        /\ participants[v].acct = "live" /\ participants[v].is_winner
        /\ ~participants[v].payout_claimed

\* C7: claim_forfeited_stakes returns Ok only in status Settled with
\* winner_count = 0 and forfeited_amount > 0 to the factory's current
\* treasury; the step moves exactly participant_count * stake_amount from the
\* vault to the treasury and sets forfeited_amount to 0; the treasury is paid
\* at most once, and afterwards every call fails, with NoForfeitedStakes
\* while the challenge and its vault exist.
C7_ForfeitureOnce ==
    /\ [](\A t \in TreasuryKeys :
            /\ ClaimForfeitedStakesResult(t) = "Ok"
                => /\ Live /\ challenge.status = "Settled"
                   /\ challenge.winner_count = 0
                   /\ challenge.forfeited_amount > 0
                   /\ t = factory.treasury
            /\ treasury_paid > 0
                => /\ ClaimForfeitedStakesResult(t) # "Ok"
                   /\ (Live /\ vault.acct = "live")
                        => ClaimForfeitedStakesResult(t) = "NoForfeitedStakes")
    /\ [][treasury_paid' # treasury_paid
            => /\ ClaimForfeitedStakesResult(factory.treasury) = "Ok"
               /\ treasury_paid = 0
               /\ treasury_paid' = challenge.participant_count * challenge.stake_amount
               /\ vault'.amount = vault.amount - treasury_paid'
               /\ challenge'.forfeited_amount = 0
               /\ challenge'.status = "Settled"]_vars

\* C7 witness (Scenario B with two participants): the treasury has claimed
\* the stakes of a challenge nobody won, and the vault is empty.
C7_Witness ==
    /\ Live /\ vault.acct = "live" /\ challenge.status = "Settled"
    /\ challenge.participant_count >= 2
    /\ treasury_paid = challenge.participant_count * challenge.stake_amount
    /\ challenge.forfeited_amount = 0
    /\ vault.amount = 0

\* C8: claim_refund returns Ok only in status Cancelled for a caller whose
\* participant record exists, has joined and has not claimed; the step moves
\* exactly that record's stake_deposited and sets refund_claimed; a
\* participant is refunded at most once, a repeated call fails (with
\* AlreadyClaimed while the record exists), and a user without a participant
\* record is never refunded.
C8_RefundOnce ==
    /\ [](\A u \in Users :
            /\ ClaimRefundResult(u) = "Ok"
                => /\ Live /\ challenge.status = "Cancelled"
                   /\ participants[u].acct = "live"
                   /\ participants[u].joined
                   /\ ~participants[u].refund_claimed
            /\ refund_paid[u] > 0
                => /\ ClaimRefundResult(u) # "Ok"
                   /\ (Live /\ vault.acct = "live" /\ participants[u].acct = "live")
                        => ClaimRefundResult(u) = "AlreadyClaimed"
            /\ participants[u].acct = "none"
                => /\ ClaimRefundResult(u) # "Ok"
                   /\ refund_paid[u] = 0)
    /\ [][\A u \in Users :
            refund_paid'[u] # refund_paid[u]
                => /\ ClaimRefundResult(u) = "Ok"
                   /\ refund_paid[u] = 0
                   /\ refund_paid'[u] = participants[u].stake_deposited
                   /\ vault'.amount = vault.amount - participants[u].stake_deposited
                   /\ participants'[u].refund_claimed
                   /\ \A v \in Users \ {u} : refund_paid'[v] = refund_paid[v]]_vars

\* C8 witness (Scenario C): a cancelled challenge, two participants each
\* refunded their own stake, a third user who never joined.
C8_Witness ==
    /\ Live /\ challenge.status = "Cancelled"
    /\ \E u, v, w \in Users :
        /\ u # v
        /\ refund_paid[u] = challenge.stake_amount /\ participants[u].refund_claimed
        /\ refund_paid[v] = challenge.stake_amount /\ participants[v].refund_claimed
        /\ participants[w].acct = "none"
    /\ vault.amount = 0

\* C9: winner_count + loser_count <= participant_count in every state;
\* finalize_settlement returns Ok only in status Ended to the factory's
\* current oracle with winner_count + loser_count = participant_count, and
\* only such a step makes the status Settled; on an Ended challenge with a
\* participant still unclassified the oracle gets SettlementIncomplete.
C9_FinalizeComplete ==
    /\ [](Live =>
            /\ challenge.winner_count + challenge.loser_count
                 <= challenge.participant_count
            /\ \A o \in OracleKeys :
                FinalizeSettlementResult(o) = "Ok"
                    => /\ challenge.status = "Ended"
                       /\ o = factory.oracle
                       /\ challenge.winner_count + challenge.loser_count
                            = challenge.participant_count
            /\ (challenge.status = "Ended"
                  /\ challenge.winner_count + challenge.loser_count
                       # challenge.participant_count)
                 => FinalizeSettlementResult(factory.oracle) = "SettlementIncomplete")
    /\ [][(Live /\ challenge'.acct = "live"
             /\ challenge.status # "Settled" /\ challenge'.status = "Settled")
            => /\ challenge.status = "Ended"
               /\ challenge.winner_count + challenge.loser_count
                    = challenge.participant_count
               /\ <<challenge'.winner_count, challenge'.loser_count,
                    challenge'.participant_count>>
                    = <<challenge.winner_count, challenge.loser_count,
                        challenge.participant_count>>]_vars

\* C9 witness: an Ended challenge with one participant classified and
\* another not yet.
C9_Witness ==
    /\ Live /\ challenge.status = "Ended"
    /\ challenge.winner_count + challenge.loser_count > 0
    /\ challenge.winner_count + challenge.loser_count < challenge.participant_count

SettledNow(u) == ~participants[u].is_settled /\ participants'[u].is_settled

\* C10: settle_participant returns Ok only in status Ended to the factory's
\* current oracle for a participant that is not settled; winner_count and
\* loser_count change only in a step that sets is_settled of exactly one
\* such participant and adds one to exactly one of the two counters
\* (winner_count if and only if the participant is marked winner); is_settled
\* is never reset, and for a settled participant the oracle gets
\* AlreadySettled while the challenge is Ended.
C10_SettleOnce ==
    /\ [](\A u \in Users :
            /\ \A o \in OracleKeys :
                SettleParticipantResult(o, u) = "Ok"
                    => /\ Live /\ challenge.status = "Ended"
                       /\ o = factory.oracle
                       /\ ~participants[u].is_settled
            /\ (participants[u].is_settled /\ Live /\ challenge.status = "Ended")
                    => SettleParticipantResult(factory.oracle, u) = "AlreadySettled")
    /\ [][/\ \A u \in Users :
                participants[u].is_settled /\ participants'[u].acct = "live"
                    => participants'[u].is_settled
          /\ (Live /\ challenge'.acct = "live"
                /\ (<<challenge'.winner_count, challenge'.loser_count>>
                      # <<challenge.winner_count, challenge.loser_count>>
                    \/ \E u \in Users : SettledNow(u)))
                => \E u \in Users :
                    /\ SettleParticipantResult(factory.oracle, u) = "Ok"
                    /\ SettledNow(u)
                    /\ \A v \in Users : SettledNow(v) => v = u
                    /\ \/ /\ challenge'.winner_count = challenge.winner_count + 1
                          /\ challenge'.loser_count = challenge.loser_count
                          /\ participants'[u].is_winner
                       \/ /\ challenge'.winner_count = challenge.winner_count
                          /\ challenge'.loser_count = challenge.loser_count + 1
                          /\ ~participants'[u].is_winner]_vars

\* C10 witness: a winner and a loser have both been settled on an Ended
\* challenge.
C10_Witness ==
    /\ Live /\ challenge.status = "Ended"
    /\ challenge.winner_count > 0 /\ challenge.loser_count > 0
    /\ \E u, v \in Users :
        /\ participants[u].is_settled /\ participants[u].is_winner
        /\ participants[v].is_settled /\ ~participants[v].is_winner

\* Ceiling of a / b for a >= 0, b > 0.
CeilDiv(a, b) == IF a % b = 0 THEN a \div b ELSE (a \div b) + 1

\* C11: settle_participant marks a participant winner if and only if its
\* proof_days >= ceil(total_days * 8000 / 10000): required_days is that
\* ceiling, it is at least 1 for every total_days >= 1 (1 for total_days =
\* 1), a settled participant is winner exactly when its proof_days reach the
\* ceiling, an unsettled one is not winner, and a participant with no
\* recorded proof is never winner.
C11_WinnerIffThreshold ==
    /\ [](/\ \A d \in 1..MaxTotalDays :
                /\ required_days(d, WIN_THRESHOLD_BPS)
                     = CeilDiv(d * WIN_THRESHOLD_BPS, 10000)
                /\ required_days(d, WIN_THRESHOLD_BPS) >= 1
          /\ required_days(1, 8000) = 1
          /\ Live => \A u \in Users :
                participants[u].acct = "live"
                    => /\ participants[u].is_winner
                         <=> (participants[u].is_settled
                                /\ participants[u].proof_days
                                     >= CeilDiv(challenge.total_days * 8000, 10000))
                       /\ participants[u].proof_days = 0
                            => ~participants[u].is_winner)
    /\ [][\A u \in Users :
            (Live /\ SettledNow(u))
                => (participants'[u].is_winner
                      <=> participants[u].proof_days
                            >= CeilDiv(challenge.total_days * 8000, 10000))]_vars

\* C11 witness: an Ended one-day challenge on which a participant with a
\* recorded proof was settled as winner and one with no proof as loser,
\* while a third is still to be settled.
C11_Witness ==
    /\ Live /\ challenge.status = "Ended" /\ challenge.total_days = 1
    /\ \E u, v, w \in Users :
        /\ participants[u].is_settled /\ participants[u].proof_days = 1
        /\ participants[u].is_winner
        /\ participants[v].is_settled /\ participants[v].proof_days = 0
        /\ ~participants[v].is_winner
        /\ participants[w].acct = "live" /\ ~participants[w].is_settled

\* C12: claim_payout returns Ok only in status Settled for a participant
\* that is settled, is winner and has payout_claimed = false, with
\* payouts_claimed_count < winner_count; the step that pays a participant
\* moves exactly stake_amount + bonus_per_winner + d from the vault to that
\* participant, where d = 1 if remainder_claimed < remainder before the step
\* and 0 otherwise, adds 1 to payouts_claimed_count and d to
\* remainder_claimed, and sets payout_claimed.
C12_ClaimPayoutContract ==
    /\ [](\A u \in Users :
            ClaimPayoutResult(u) = "Ok"
                => /\ Live /\ challenge.status = "Settled"
                   /\ participants[u].is_settled
                   /\ participants[u].is_winner
                   /\ ~participants[u].payout_claimed
                   /\ challenge.payouts_claimed_count < challenge.winner_count)
    /\ [][\A u \in Users :
            payout_paid'[u] # payout_paid[u]
                => LET d == IF challenge.remainder_claimed < challenge.remainder
                            THEN 1 ELSE 0
                       amount == challenge.stake_amount + challenge.bonus_per_winner + d
                   IN /\ ClaimPayoutResult(u) = "Ok"
                      /\ payout_paid'[u] = payout_paid[u] + amount
                      /\ vault'.amount = vault.amount - amount
                      /\ challenge'.payouts_claimed_count
                            = challenge.payouts_claimed_count + 1
                      /\ challenge'.remainder_claimed
                            = challenge.remainder_claimed + d
                      /\ participants'[u].payout_claimed
                      /\ challenge'.status = "Settled"]_vars

\* C12 witness: the first winner was paid with the dust unit, which used up
\* the remainder; a second winner has not claimed yet and a settled loser's
\* record exists.
C12_Witness ==
    /\ Live /\ vault.acct = "live" /\ challenge.status = "Settled"
    /\ challenge.remainder > 0
    /\ challenge.remainder_claimed = challenge.remainder
    /\ \E u, v, w \in Users :
        /\ participants[u].payout_claimed
        /\ payout_paid[u] = challenge.stake_amount + challenge.bonus_per_winner + 1
        /\ participants[v].acct = "live" /\ participants[v].is_winner
        /\ ~participants[v].payout_claimed /\ payout_paid[v] = 0
        /\ participants[w].acct = "live" /\ participants[w].is_settled
        /\ ~participants[w].is_winner

\* C13: the finalize_settlement step (status Ended -> Settled) taken with
\* winner_count = 0 sets forfeited_amount = participant_count * stake_amount,
\* bonus_per_winner = 0 and remainder = 0; taken with winner_count > 0 and
\* loser_count = 0 it sets bonus_per_winner = 0, remainder = 0 and
\* forfeited_amount = 0, and every payout made afterwards is exactly
\* stake_amount; in every case the step leaves payouts_claimed_count = 0,
\* remainder_claimed = 0 and status Settled, and changes no other field.
C13_FinalizeOutcomes ==
    /\ [][(Live /\ challenge.status = "Ended" /\ challenge'.acct = "live"
             /\ challenge'.status # "Ended")
            => /\ challenge'.status = "Settled"
               /\ challenge'.payouts_claimed_count = 0
               /\ challenge'.remainder_claimed = 0
               /\ challenge.winner_count = 0
                    => /\ challenge'.forfeited_amount
                            = challenge.participant_count * challenge.stake_amount
                       /\ challenge'.bonus_per_winner = 0
                       /\ challenge'.remainder = 0
               /\ (challenge.winner_count > 0 /\ challenge.loser_count = 0)
                    => /\ challenge'.bonus_per_winner = 0
                       /\ challenge'.remainder = 0
                       /\ challenge'.forfeited_amount = 0
               /\ challenge' = [challenge EXCEPT
                        !.status = "Settled",
                        !.payouts_claimed_count = 0,
                        !.remainder_claimed = 0,
                        !.forfeited_amount = challenge'.forfeited_amount,
                        !.bonus_per_winner = challenge'.bonus_per_winner,
                        !.remainder = challenge'.remainder]
               /\ UNCHANGED <<now, factory, participants, vault, ledger>>]_vars
    /\ []((Live /\ challenge.status = "Settled"
                /\ challenge.winner_count > 0 /\ challenge.loser_count = 0)
            => /\ challenge.bonus_per_winner = 0
               /\ challenge.remainder = 0
               /\ challenge.forfeited_amount = 0
               /\ \A u \in Users :
                    payout_paid[u] \in {0, challenge.stake_amount})

\* C13 witness: finalize_settlement has just run on a challenge with two or
\* more participants and no winner; the whole pool is marked forfeited and
\* still in the vault.
C13_Witness ==
    /\ Live /\ challenge.status = "Settled"
    /\ challenge.winner_count = 0 /\ challenge.participant_count >= 2
    /\ challenge.forfeited_amount
         = challenge.participant_count * challenge.stake_amount
    /\ challenge.bonus_per_winner = 0 /\ challenge.remainder = 0
    /\ vault.amount = challenge.forfeited_amount
    /\ treasury_paid = 0

\* Scenario A: everybody won and every winner has reclaimed exactly the
\* stake.
C13_NoLosersCase ==
    /\ Live /\ challenge.status = "Settled"
    /\ challenge.loser_count = 0 /\ challenge.winner_count >= 2
    /\ challenge.payouts_claimed_count = challenge.winner_count
    /\ \E u \in Users : payout_paid[u] = challenge.stake_amount

\* C14: record_proof returns Ok only for a participant that has joined, with
\* start_ts <= now <= end_ts, to the factory's current oracle and in status
\* Created or Started; proof_days of a participant changes only in such a
\* step, which adds exactly 1 to that participant's proof_days, changes no
\* other participant, and makes the status Started if it was Created and
\* leaves it unchanged otherwise.
C14_RecordProofContract ==
    /\ [](\A o \in OracleKeys, u \in Users :
            RecordProofResult(o, u) = "Ok"
                => /\ Live /\ participants[u].acct = "live"
                   /\ participants[u].joined
                   /\ challenge.start_ts <= now /\ now <= challenge.end_ts
                   /\ o = factory.oracle
                   /\ challenge.status \in {"Created", "Started"})
    /\ [][\A u \in Users :
            (participants[u].acct = "live" /\ participants'[u].acct = "live"
                /\ participants'[u].proof_days # participants[u].proof_days)
                => /\ RecordProofResult(factory.oracle, u) = "Ok"
                   /\ participants'[u].proof_days = participants[u].proof_days + 1
                   /\ participants' = [participants EXCEPT
                            ![u].proof_days = participants[u].proof_days + 1]
                   /\ challenge'.status =
                        IF challenge.status = "Created" THEN "Started"
                        ELSE challenge.status
                   /\ challenge' = [challenge EXCEPT !.status = challenge'.status]]_vars

\* C14 witness: two participants each have a recorded proof (the first proof
\* started the challenge, the second left it Started), a third joined
\* participant has none, and the clock is inside the window.
C14_Witness ==
    /\ Live /\ challenge.status = "Started"
    /\ challenge.start_ts <= now /\ now <= challenge.end_ts
    /\ \E u, v, w \in Users :
        /\ u # v
        /\ participants[u].proof_days = 1 /\ participants[v].proof_days = 1
        /\ participants[w].joined /\ participants[w].proof_days = 0

\* C15: every participant has proof_days <= total_days in every state; for
\* a participant whose proof_days equals total_days record_proof never
\* returns Ok, it returns MaxProofsReached when every other requirement is
\* met, and no step that changes a participant or the challenge is a
\* record_proof call with that result, so the call leaves proof_days and the
\* status unchanged.
C15_ProofCap ==
    /\ [](Live => \A u \in Users :
            participants[u].acct = "live"
                => /\ participants[u].proof_days <= challenge.total_days
                   /\ participants[u].proof_days = challenge.total_days
                        => /\ \A o \in OracleKeys : RecordProofResult(o, u) # "Ok"
                           /\ (/\ challenge.status \in {"Created", "Started"}
                               /\ challenge.start_ts <= now /\ now <= challenge.end_ts
                               /\ participants[u].joined)
                                => RecordProofResult(factory.oracle, u)
                                        = "MaxProofsReached")
    /\ [][(participants' # participants \/ challenge' # challenge)
            => \A u \in Users :
                /\ \A o \in OracleKeys :
                        RecordProofResult(o, u) = "MaxProofsReached"
                            => ~RecordProof(o, u)
                /\ (Live /\ participants[u].acct = "live"
                      /\ participants'[u].acct = "live"
                      /\ participants[u].proof_days = challenge.total_days)
                        => participants'[u].proof_days
                                = participants[u].proof_days]_vars

\* C15 witness: a participant's proof_days equals total_days while the
\* window is still open, so that a further record_proof for it is rejected
\* with MaxProofsReached.
C15_Witness ==
    /\ Live /\ challenge.status = "Started"
    /\ \E u \in Users :
        /\ participants[u].acct = "live"
        /\ participants[u].proof_days = challenge.total_days
        /\ RecordProofResult(factory.oracle, u) = "MaxProofsReached"

\* C16: settle_challenge returns Ok only in status Created or Started, with
\* now > end_ts strictly, to the factory's current oracle, and the status
\* becomes Ended only in such a step; on a challenge that is Ended, Settled
\* or Cancelled it returns InvalidChallengeStatus to every caller, and no
\* step that changes the challenge is a settle_challenge call with that
\* result.
C16_SettleChallengeContract ==
    /\ [](\A o \in OracleKeys :
            /\ SettleChallengeResult(o) = "Ok"
                => /\ Live /\ challenge.status \in {"Created", "Started"}
                   /\ now > challenge.end_ts
                   /\ o = factory.oracle
            /\ (Live /\ challenge.status \in {"Ended", "Settled", "Cancelled"})
                => SettleChallengeResult(o) = "InvalidChallengeStatus")
    /\ [][/\ (Live /\ challenge'.acct = "live"
                /\ challenge.status # "Ended" /\ challenge'.status = "Ended")
                => /\ SettleChallengeResult(factory.oracle) = "Ok"
                   /\ now > challenge.end_ts
                   /\ challenge' = [challenge EXCEPT !.status = "Ended"]
          /\ challenge' # challenge
                => \A o \in OracleKeys :
                        SettleChallengeResult(o) = "InvalidChallengeStatus"
                            => ~SettleChallenge(o)]_vars

\* C16 witness: a challenge with participants was ended strictly after its
\* end_ts and is still Ended, so that ending it again is rejected.
C16_Witness ==
    /\ Live /\ challenge.status = "Ended"
    /\ now > challenge.end_ts
    /\ challenge.participant_count >= 1
    /\ challenge.winner_count + challenge.loser_count = 0
    /\ SettleChallengeResult(factory.oracle) = "InvalidChallengeStatus"

\* C17: cancel_challenge returns Ok only to the challenge creator, in status
\* Created, with now < start_ts strictly, and the status becomes Cancelled
\* only in such a step; a Cancelled challenge has no recorded proof, and a
\* challenge that has a recorded proof or whose start_ts has been reached
\* does not become Cancelled.
C17_CancelContract ==
    /\ [](/\ \A c \in CreatorKeys \cup OracleKeys :
                CancelChallengeResult(c) = "Ok"
                    => /\ Live /\ c = challenge.creator
                       /\ challenge.status = "Created"
                       /\ now < challenge.start_ts
          /\ (Live /\ challenge.status = "Cancelled")
                => \A u \in Users :
                        participants[u].acct = "live"
                            => participants[u].proof_days = 0)
    /\ [][/\ (Live /\ challenge'.acct = "live"
                /\ challenge.status # "Cancelled" /\ challenge'.status = "Cancelled")
                => /\ CancelChallengeResult(challenge.creator) = "Ok"
                   /\ challenge.status = "Created"
                   /\ now < challenge.start_ts
                   /\ challenge' = [challenge EXCEPT !.status = "Cancelled"]
          /\ (Live /\ challenge'.acct = "live" /\ challenge.status # "Cancelled"
                /\ (now >= challenge.start_ts
                    \/ \E u \in Users : participants[u].proof_days > 0))
                => challenge'.status # "Cancelled"]_vars

\* C17 witness: the creator cancelled a challenge with two participants
\* before its start.
C17_Witness ==
    /\ Live /\ challenge.status = "Cancelled"
    /\ now < challenge.start_ts
    /\ challenge.participant_count >= 2
    /\ vault.amount = challenge.participant_count * challenge.stake_amount

\* A Created challenge whose start_ts has been reached: the creator's
\* cancel_challenge is rejected with ChallengeStarted.
C17_TooLateCase ==
    /\ Live /\ challenge.status = "Created"
    /\ now >= challenge.start_ts
    /\ CancelChallengeResult(challenge.creator) = "ChallengeStarted"

\* C18: join_challenge returns Ok only in status Created, with now <
\* start_ts, for a user that has no participant record; a participant
\* record comes into existence only in such a step, which moves exactly
\* stake_amount into the vault, creates the record with stake_deposited =
\* stake_amount, proof_days = 0, joined = true and every other flag false,
\* and adds 1 to participant_count and to active_participants;
\* participant_count changes in no other step, and for a user that has a
\* record join_challenge fails.
C18_JoinContract ==
    /\ [](\A u \in Users, funded \in BOOLEAN :
            /\ JoinChallengeResult(u, funded) = "Ok"
                => /\ Live /\ challenge.status = "Created"
                   /\ now < challenge.start_ts
                   /\ participants[u].acct = "none"
            /\ participants[u].acct # "none"
                => JoinChallengeResult(u, funded) # "Ok"
            /\ (Live /\ participants[u].acct = "live")
                => JoinChallengeResult(u, funded) = "AccountAlreadyInUse")
    /\ [][/\ \A u \in Users :
                (participants[u].acct # "live" /\ participants'[u].acct = "live")
                    => /\ JoinChallengeResult(u, TRUE) = "Ok"
                       /\ vault'.amount = vault.amount + challenge.stake_amount
                       /\ participants'[u] =
                            [acct |-> "live", joined |-> TRUE,
                             stake_deposited |-> challenge.stake_amount,
                             proof_days |-> 0, is_winner |-> FALSE,
                             is_settled |-> FALSE, payout_claimed |-> FALSE,
                             refund_claimed |-> FALSE]
                       /\ challenge' = [challenge EXCEPT
                            !.participant_count = challenge.participant_count + 1,
                            !.active_participants = challenge.active_participants + 1]
                       /\ \A v \in Users \ {u} : participants'[v] = participants[v]
          /\ (Live /\ challenge'.acct = "live"
                /\ challenge'.participant_count # challenge.participant_count)
                => \E u \in Users :
                        participants[u].acct = "none" /\ participants'[u].acct = "live"
          /\ (vault.acct = "live" /\ vault'.amount > vault.amount)
                => \E u \in Users :
                        participants[u].acct = "none" /\ participants'[u].acct = "live"]_vars

\* C18 witness: two users have joined a Created challenge before its start
\* and a third has not; a further join by either of the two is rejected.
C18_Witness ==
    /\ Live /\ challenge.status = "Created" /\ now < challenge.start_ts
    /\ challenge.participant_count = 2 /\ challenge.active_participants = 2
    /\ vault.amount = 2 * challenge.stake_amount
    /\ \E u, v, w \in Users :
        /\ u # v
        /\ participants[u].joined /\ participants[v].joined
        /\ participants[u].stake_deposited = challenge.stake_amount
        /\ JoinChallengeResult(u, TRUE) = "AccountAlreadyInUse"
        /\ participants[w].acct = "none"

\* The oracle-gated instructions that return Ok to the oracle `o` in the
\* current state, and whether claim_forfeited_stakes returns Ok to `t`.
OracleAccepted(o) ==
    {<<"record_proof", u>> : u \in {v \in Users : RecordProofResult(o, v) = "Ok"}}
        \cup {<<"settle_participant", u>> :
                u \in {v \in Users : SettleParticipantResult(o, v) = "Ok"}}
        \cup (IF SettleChallengeResult(o) = "Ok"
              THEN {<<"settle_challenge", NoKey>>} ELSE {})
        \cup (IF FinalizeSettlementResult(o) = "Ok"
              THEN {<<"finalize_settlement", NoKey>>} ELSE {})

OracleRejected(o) ==
    {<<"record_proof", u>> :
        u \in {v \in Users : RecordProofResult(o, v) = "InvalidOracle"}}
        \cup {<<"settle_participant", u>> :
                u \in {v \in Users : SettleParticipantResult(o, v) = "InvalidOracle"}}
        \cup (IF SettleChallengeResult(o) = "InvalidOracle"
              THEN {<<"settle_challenge", NoKey>>} ELSE {})
        \cup (IF FinalizeSettlementResult(o) = "InvalidOracle"
              THEN {<<"finalize_settlement", NoKey>>} ELSE {})

\* C19: record_proof, settle_challenge, settle_participant and
\* finalize_settlement return Ok only to the factory's current oracle and
\* claim_forfeited_stakes only to its current treasury; where the current
\* identity is accepted any other is rejected (InvalidOracle, Unauthorized);
\* and in a step that replaces the oracle (treasury) while the challenge
\* exists, every call the previous identity was accepted for is, after the
\* step, accepted for the new identity and rejected for the previous one.
C19_CurrentRegistryValues ==
    /\ [](/\ \A o \in OracleKeys \ {factory.oracle} :
                /\ OracleAccepted(o) = {}
                /\ OracleAccepted(factory.oracle) \subseteq OracleRejected(o)
          /\ \A t \in TreasuryKeys \ {factory.treasury} :
                /\ ClaimForfeitedStakesResult(t) # "Ok"
                /\ ClaimForfeitedStakesResult(factory.treasury) = "Ok"
                        => ClaimForfeitedStakesResult(t) = "Unauthorized")
    /\ [][/\ \A old, new \in OracleKeys :
                (Live /\ old = factory.oracle /\ new = factory'.oracle /\ old # new)
                    => /\ challenge' = challenge /\ participants' = participants
                       /\ OracleAccepted(old) \subseteq OracleAccepted(new)'
                       /\ OracleAccepted(old) \subseteq OracleRejected(old)'
          /\ \A old, new \in TreasuryKeys :
                (Live /\ old = factory.treasury /\ new = factory'.treasury
                    /\ old # new /\ ClaimForfeitedStakesResult(old) = "Ok")
                    => /\ ClaimForfeitedStakesResult(new)' = "Ok"
                       /\ ClaimForfeitedStakesResult(old)' = "Unauthorized"]_vars

\* C19 witness: the registry holds the replacement oracle and treasury while
\* a challenge is Ended with a participant to settle; the replacement oracle
\* is accepted and the initial one rejected.
C19_Witness ==
    /\ Live /\ challenge.status = "Ended"
    /\ factory.oracle = "o1" /\ factory.treasury = "t1"
    /\ \E u \in Users :
        /\ SettleParticipantResult("o1", u) = "Ok"
        /\ SettleParticipantResult("o0", u) = "InvalidOracle"

\* An update that replaces the oracle of a challenge in flight, for which
\* the previous oracle was about to be accepted.
C19_UpdateInFlightCase ==
    /\ Live /\ factory.oracle = "o0"
    /\ OracleAccepted("o0") # {}
    /\ UpdateFactoryResult(factory.authority, None) = "Ok"

\* A treasury replaced while forfeited stakes wait in the vault.
C19_TreasuryInFlightCase ==
    /\ Live /\ factory.treasury = "t1"
    /\ ClaimForfeitedStakesResult("t1") = "Ok"
    /\ ClaimForfeitedStakesResult("t0") = "Unauthorized"

\* C20: update_factory returns Ok only to the factory's current authority;
\* a call by the authority with a day length <= 0 returns InvalidDayLength
\* and no step that changes the factory is an update_factory call with a
\* result other than Ok, so authority, treasury, oracle and
\* day_length_seconds stay, whatever identities the call supplied; the factory changes in no step but a successful update_factory
\* (and create_challenge, which only counts); day_length_seconds > 0 in
\* every state.
C20_UpdateFactoryContract ==
    /\ [](/\ factory.day_length_seconds > 0
          /\ \A caller \in AuthorityKeys, d \in Option(DayLengthInputs) :
                /\ UpdateFactoryResult(caller, d) = "Ok"
                        => caller = factory.authority
                /\ (caller = factory.authority /\ d # None /\ d[1] <= 0)
                        => UpdateFactoryResult(caller, d) = "InvalidDayLength")
    /\ [][/\ factory' # factory
                => \A caller \in AuthorityKeys, i \in UpdateInputs :
                    UpdateFactoryResult(caller, i[4]) # "Ok"
                        => ~UpdateFactory(caller, i[1], i[2], i[3], i[4])
          /\ [factory EXCEPT !.challenge_count = 0]
                # [factory' EXCEPT !.challenge_count = 0]
                => \E i \in UpdateInputs :
                    /\ UpdateFactoryResult(factory.authority, i[4]) = "Ok"
                    /\ UpdateFactory(factory.authority, i[1], i[2], i[3], i[4])]_vars

\* C20 witness: the authority has been replaced and the day length
\* shortened; the previous authority is rejected, and the current one is
\* rejected with InvalidDayLength when it supplies new identities together
\* with a day length of 0.
C20_Witness ==
    /\ factory.authority = "a1" /\ factory.day_length_seconds = 1
    /\ Live
    /\ UpdateFactoryResult("a0", None) = "Unauthorized"
    /\ UpdateFactoryResult("a1", Some(0)) = "InvalidDayLength"
    /\ <<Some("a1"), Some("t1"), Some("o1"), Some(0)>> \in UpdateInputs

\* C21: the step that creates the challenge sets end_ts = start_ts +
\* total_days * day_length_seconds, with the factory's day length of the
\* state the step starts in; while the challenge record exists no step
\* changes its end_ts, start_ts, total_days or stake_amount, and a step that
\* changes the factory's day_length_seconds leaves the challenge unchanged.
C21_ScheduleFixedAtCreation ==
    [][/\ challenge' # challenge
            => /\ (challenge.acct = "none" /\ challenge'.acct = "live")
                    => challenge'.end_ts = challenge'.start_ts
                            + challenge'.total_days * factory.day_length_seconds
               /\ (Live /\ challenge'.acct = "live")
                    => <<challenge'.end_ts, challenge'.start_ts,
                         challenge'.total_days, challenge'.stake_amount>>
                        = <<challenge.end_ts, challenge.start_ts,
                            challenge.total_days, challenge.stake_amount>>
       /\ factory'.day_length_seconds # factory.day_length_seconds
            => challenge' = challenge]_vars

\* C21 witness: a challenge created under the default day length still has
\* the end_ts computed from it after update_factory shortened the day.
C21_Witness ==
    /\ Live
    /\ factory.day_length_seconds = 1
    /\ challenge.end_ts
         = challenge.start_ts + challenge.total_days * DEFAULT_DAY_LENGTH_SECONDS
    /\ challenge.participant_count >= 1

\* The callers and destinations close_participant is called with for the
\* participant u: <<authority, destination>>.
CloseCalls(u) == {<<u, u>>, <<"c0", u>>, <<"o0", u>>, <<u, "c0">>}

\* What the participant u is still owed from the vault.
Owed(u) ==
    \/ /\ challenge.status = "Settled"
       /\ participants[u].is_winner /\ ~participants[u].payout_claimed
    \/ /\ challenge.status = "Cancelled"
       /\ participants[u].joined /\ ~participants[u].refund_claimed

\* C22: close_participant returns Ok only when the challenge is Settled and
\* the participant is settled and, if winner, has payout_claimed, or the
\* challenge is Cancelled and the participant has refund_claimed; in status
\* Created, Started or Ended it never returns Ok and returns
\* ChallengeStillActive to the participant and to the creator; a participant
\* record ceases to exist only in such a step, which subtracts exactly 1
\* from active_participants, changes nothing else of the challenge and never
\* removes the record of a participant that is still owed a payout or a
\* refund; active_participants is the number of records that exist.
C22_CloseParticipantContract ==
    /\ [](Live =>
            /\ challenge.active_participants
                 = Cardinality({u \in Users : participants[u].acct = "live"})
            /\ \A u \in Users : \A c \in CloseCalls(u) :
                /\ CloseParticipantResult(c[1], u, c[2]) = "Ok"
                    => \/ /\ challenge.status = "Settled"
                          /\ participants[u].is_settled
                          /\ participants[u].is_winner
                                => participants[u].payout_claimed
                       \/ /\ challenge.status = "Cancelled"
                          /\ participants[u].refund_claimed
                /\ (challenge.status \in {"Created", "Started", "Ended"}
                        /\ participants[u].acct = "live"
                        /\ c[2] = u /\ c[1] \in {u, challenge.creator})
                    => CloseParticipantResult(c[1], u, c[2]) = "ChallengeStillActive")
    /\ [][participants' # participants
            => \A u \in Users :
                (participants[u].acct = "live" /\ participants'[u].acct # "live")
                    => /\ \E c \in CloseCalls(u) :
                            CloseParticipantResult(c[1], u, c[2]) = "Ok"
                       /\ ~Owed(u)
                       /\ challenge' = [challenge EXCEPT
                            !.active_participants = challenge.active_participants - 1]
                       /\ \A v \in Users \ {u} : participants'[v] = participants[v]
                       /\ vault' = vault]_vars

\* C22 witness: on a Settled challenge one participant's record has been
\* reclaimed while a winner that has not claimed its payout keeps its
\* record, for which close_participant is rejected.
C22_Witness ==
    /\ Live /\ challenge.status = "Settled"
    /\ challenge.active_participants = challenge.participant_count - 1
    /\ \E u, v \in Users :
        /\ participants[u].acct = "closed"
        /\ participants[v].acct = "live" /\ Owed(v)
        /\ CloseParticipantResult(v, v, v) = "PayoutNotClaimed"

\* On a Cancelled challenge a refunded participant's record has been
\* reclaimed and an unrefunded one is kept.
C22_CancelledCase ==
    /\ Live /\ challenge.status = "Cancelled"
    /\ \E u, v \in Users :
        /\ participants[u].acct = "closed"
        /\ participants[v].acct = "live" /\ Owed(v)
        /\ CloseParticipantResult(v, v, v) = "RefundNotClaimed"

\* The signers close_challenge and close_escrow_vault are called by.
CloseCallers == CreatorKeys \cup {"o0"}

\* C23: close_challenge returns Ok only to the creator and only when the
\* challenge is Settled with winners and payouts_claimed_count =
\* winner_count and remainder_claimed = remainder, or Settled without
\* winners and forfeited_amount = 0, or Cancelled, in each case with
\* active_participants = 0; in status Created, Started or Ended the creator
\* gets ChallengeStillActive; a challenge record that has been discarded
\* leaves no participant record and no funds in the vault behind.
C23_CloseChallengeContract ==
    /\ \A c \in CloseCallers :
        CloseChallengeResult(c) = "Ok"
            => /\ Live /\ c = challenge.creator
               /\ challenge.active_participants = 0
               /\ \/ /\ challenge.status = "Settled" /\ challenge.winner_count > 0
                     /\ challenge.payouts_claimed_count = challenge.winner_count
                     /\ challenge.remainder_claimed = challenge.remainder
                  \/ /\ challenge.status = "Settled" /\ challenge.winner_count = 0
                     /\ challenge.forfeited_amount = 0
                  \/ challenge.status = "Cancelled"
    /\ (Live /\ challenge.status \in {"Created", "Started", "Ended"})
            => /\ CloseChallengeResult(challenge.creator) = "ChallengeStillActive"
               /\ \A c \in CloseCallers : CloseChallengeResult(c) # "Ok"
    /\ challenge.acct = "closed"
            => /\ \A u \in Users : participants[u].acct # "live"
               /\ vault.amount = 0

\* C23 witness: the record of a challenge that was settled with winners has
\* been discarded after every winner was paid.
C23_Witness ==
    /\ challenge.acct = "closed"
    /\ Cardinality({u \in Users : payout_paid[u] > 0}) >= 2
    /\ \E u \in Users : participants[u].acct = "closed" /\ payout_paid[u] = 0

\* A Cancelled challenge with a refunded participant whose record still
\* exists: close_challenge is rejected with ParticipantsRemaining.
C23_CancelledCase ==
    /\ Live /\ challenge.status = "Cancelled"
    /\ challenge.active_participants > 0
    /\ vault.amount = 0
    /\ CloseChallengeResult(challenge.creator) = "ParticipantsRemaining"

\* C24: close_escrow_vault returns Ok only to the creator, in status Settled
\* or Cancelled, for a Settled challenge only with every winner paid (with no
\* winners: with the forfeiture claimed), and only with a vault balance of
\* exactly 0; with a non-zero balance and every other requirement met the
\* creator gets EscrowNotEmpty; a vault that has been closed belongs to a
\* challenge that owes nothing, and everything deposited has been paid out.
C24_CloseVaultContract ==
    /\ \A c \in CloseCallers :
        CloseEscrowVaultResult(c) = "Ok"
            => /\ Live /\ vault.acct = "live" /\ c = challenge.creator
               /\ challenge.status \in {"Settled", "Cancelled"}
               /\ (challenge.status = "Settled" /\ challenge.winner_count > 0)
                    => challenge.payouts_claimed_count = challenge.winner_count
               /\ (challenge.status = "Settled" /\ challenge.winner_count = 0)
                    => challenge.forfeited_amount = 0
               /\ vault.amount = 0
    /\ (Live /\ vault.acct = "live" /\ vault.amount # 0)
            => /\ \A c \in CloseCallers : CloseEscrowVaultResult(c) # "Ok"
               /\ challenge.status = "Cancelled"
                    => CloseEscrowVaultResult(challenge.creator) = "EscrowNotEmpty"
    /\ (Live /\ vault.acct = "closed")
            => /\ challenge.status \in {"Settled", "Cancelled"}
               /\ \A u \in Users : participants[u].acct = "live" => ~Owed(u)
               /\ challenge.forfeited_amount = 0
               /\ SumF(payout_paid, Users) + SumF(refund_paid, Users) + treasury_paid
                    = challenge.participant_count * challenge.stake_amount

\* C24 witness: the vault of a Cancelled challenge was closed after both
\* participants had been refunded.
C24_Witness ==
    /\ Live /\ vault.acct = "closed" /\ challenge.status = "Cancelled"
    /\ challenge.participant_count >= 2
    /\ \A u \in Users : participants[u].acct # "none" => refund_paid[u] > 0

\* A Cancelled challenge with an unrefunded stake in the vault:
\* close_escrow_vault is rejected with EscrowNotEmpty.
C24_NotEmptyCase ==
    /\ Live /\ vault.acct = "live" /\ challenge.status = "Cancelled"
    /\ vault.amount > 0
    /\ CloseEscrowVaultResult(challenge.creator) = "EscrowNotEmpty"

\* ---------------------------------------------------------------------------
\* C25  In every operation the checks that can fail come before the
\* operation's first field write or token transfer: a call that returns an
\* error has written no field and moved no token.  Stated for update_factory
\* (the account as the handler wrote it equals the account before the call)
\* and join_challenge (the transfer into the vault has moved nothing).
C25_ChecksBeforeEffects ==
    /\ \A caller \in AuthorityKeys, i \in UpdateInputs :
            UpdateFactoryResult(caller, i[4]) # "Ok"
                => UpdateFactoryWritten(caller, i[1], i[2], i[3], i[4]) = factory
    /\ \A u \in Users, funded, overflow_checks \in BOOLEAN :
            JoinChallengeOutcome(u, funded, overflow_checks) # "Ok"
                => JoinChallengeTransferred(u, funded, overflow_checks) = 0

\* ---------------------------------------------------------------------------
\* C26  With fixed-width counters nothing wraps: a join_challenge at the
\* largest participant_count, a settle_participant at the largest
\* winner_count or loser_count, and a finalize_settlement whose products
\* loser_count * stake_amount or participant_count * stake_amount leave the
\* range, fail with MathOverflow; the counters stay in range, and
\* active_participants, which is never taken below zero, stays the number
\* of users counted by participant_count whose record has not been closed.
C26_NoWrap ==
    /\ \A u \in Users, funded, overflow_checks \in BOOLEAN :
            ( /\ JoinChallengeResult(u, funded) = "Ok"
              /\ vault.amount + challenge.stake_amount <= U64_MAX
              /\ challenge.participant_count = U32_MAX )
                => JoinChallengeOutcome(u, funded, overflow_checks) = "MathOverflow"
    /\ \A oracle \in OracleKeys, u \in Users, overflow_checks \in BOOLEAN :
            ( /\ SettleParticipantResult(oracle, u) = "Ok"
              /\ SettleParticipantCounter(u) = U32_MAX )
                => SettleParticipantOutcome(oracle, u, overflow_checks) = "MathOverflow"
    /\ \A oracle \in OracleKeys, overflow_checks \in BOOLEAN :
            ( /\ FinalizeSettlementResult(oracle) = "Ok"
              /\ FinalizeSettlementOverflows )
                => FinalizeSettlementOutcome(oracle, overflow_checks) = "MathOverflow"
    /\ Live =>
        /\ challenge.participant_count \in 0 .. U32_MAX
        /\ challenge.active_participants \in 0 .. challenge.participant_count
        /\ challenge.winner_count + challenge.loser_count
                <= challenge.participant_count
        /\ challenge.participant_count
                >= Cardinality({u \in Users : participants[u].joined})
        /\ vault.acct = "live" => vault.amount \in 0 .. U64_MAX

\* ---------------------------------------------------------------------------
\* C27 (as stated)  Two payout claims of distinct winners that are not
\* serialized on the challenge account still give a correct result:
\* payouts_claimed_count ends at its old value plus the number of claims
\* that succeeded, the dust paid in total does not exceed remainder, and the
\* sum paid does not exceed the vault's balance.
C27_Original ==
    \A a, b \in Users :
        (a # b /\ ClaimPayoutResult(a) = "Ok" /\ ClaimPayoutResult(b) = "Ok")
            => /\ UnserializedClaims.payouts_claimed_count
                    = challenge.payouts_claimed_count + UnserializedClaims.successes
               /\ challenge.remainder_claimed + UnserializedClaims.dust_paid
                    <= challenge.remainder
               /\ UnserializedClaims.paid <= vault.amount

\* C27 (amended)  The payout claims of two distinct winners run one after
\* the other, the second reading what the first wrote, and the result is
\* correct: in every state payouts_claimed_count is the number of claims
\* that succeeded and the dust paid is remainder_claimed <= remainder; when
\* a's claim is followed by b's, the count ends two higher, the dust of the
\* two stays within what was left of remainder, and the two amounts
\* together do not exceed the vault's balance before the first.
C27_SerializedClaims ==
    /\ [](challenge.status = "Settled" =>
            /\ challenge.payouts_claimed_count
                    = Cardinality({u \in Users : payout_paid[u] > 0})
            /\ challenge.remainder_claimed <= challenge.remainder
            /\ SumF(payout_paid, Users)
                    = challenge.payouts_claimed_count
                        * (challenge.stake_amount + challenge.bonus_per_winner)
                      + challenge.remainder_claimed)
    /\ [][challenge' # challenge =>
            \A a, b \in Users :
                ( /\ a # b
                  /\ ClaimPayoutResult(a) = "Ok"
                  /\ ClaimPayoutResult(b) = "Ok"
                  /\ participants'[a].payout_claimed )
                    => /\ challenge'.payouts_claimed_count
                            = challenge.payouts_claimed_count + 1
                       /\ challenge'.remainder_claimed
                            = challenge.remainder_claimed + PayoutDust
                       /\ vault'.amount = vault.amount - PayoutAmount
                       /\ ClaimPayoutResult(b)' = "Ok"
                       /\ challenge'.remainder_claimed + PayoutDust'
                            <= challenge.remainder
                       /\ PayoutAmount + PayoutAmount' <= vault.amount
                       /\ challenge'.payouts_claimed_count + 1
                            <= challenge.winner_count]_vars

\* Two winners have claimed one after the other and the one unit of dust
\* went to one of them.
C27_Witness ==
    /\ Live
    /\ challenge.status = "Settled"
    /\ challenge.remainder = 1
    /\ challenge.remainder_claimed = 1
    /\ challenge.payouts_claimed_count = 2
    /\ \E a, b \in Users :
            /\ a # b
            /\ payout_paid[a] = payout_paid[b] + 1
            /\ payout_paid[b] > 0

\* ---------------------------------------------------------------------------
\* C28  In a Settled challenge, for two distinct winners a and b who have
\* not claimed, claim_payout(a) then claim_payout(b) both succeed, and the
\* state they lead to does not depend on which of the two went first:
\* payouts_claimed_count is two higher, remainder_claimed is higher by the
\* dust that was left, up to two units, and the vault is lower by two
\* payouts and that dust.  The amount of the first is the amount of the
\* second or one unit more.
C28_ClaimsCommute ==
    /\ [](\A u \in Users :
            ( /\ Live
              /\ challenge.status = "Settled"
              /\ participants[u].acct = "live"
              /\ participants[u].is_winner
              /\ ~participants[u].payout_claimed )
                => ClaimPayoutResult(u) = "Ok")
    /\ [][challenge' # challenge =>
           \A a, b \in Users :
               ( /\ a # b
                 /\ ClaimPayoutResult(a) = "Ok"
                 /\ ClaimPayoutResult(b) = "Ok"
                 /\ participants'[a].payout_claimed )
                   => LET left == challenge.remainder - challenge.remainder_claimed
                          dust == IF left >= 2 THEN 2 ELSE left
                          both == 2 * (challenge.stake_amount
                                           + challenge.bonus_per_winner) + dust
                      IN /\ ClaimPayoutResult(b)' = "Ok"
                         /\ challenge'.payouts_claimed_count + 1
                               = challenge.payouts_claimed_count + 2
                         /\ challenge'.remainder_claimed + PayoutDust'
                               = challenge.remainder_claimed + dust
                         /\ vault'.amount - PayoutAmount' = vault.amount - both
                         /\ (payout_paid'[a] - payout_paid[a]) + PayoutAmount' = both
                         /\ PayoutAmount - PayoutAmount' \in {0, 1}
                         /\ \A u \in Users \ {a} :
                               participants'[u] = participants[u]]_vars

\* a has claimed with the dust and b can claim next without it: in the
\* other order b would have had the dust.
C28_Witness ==
    /\ Live
    /\ challenge.status = "Settled"
    /\ challenge.payouts_claimed_count = 1
    /\ challenge.remainder_claimed = 1
    /\ \E a, b \in Users :
            /\ a # b
            /\ payout_paid[a] = challenge.stake_amount
                                    + challenge.bonus_per_winner + 1
            /\ ClaimPayoutResult(b) = "Ok"
            /\ PayoutAmount = payout_paid[a] - 1

\* ---------------------------------------------------------------------------
\* C29  An operation that names a participant leaves the record of every
\* other participant as it was: a step changes the record of at most one
\* user, and the change is one that join_challenge, record_proof,
\* settle_participant, claim_payout, claim_refund or close_participant
\* makes for that user.  settle_participant and finalize_settlement move no
\* funds: the vault and what has been paid out are unchanged by them, and
\* finalize_settlement changes no participant record.
C29_FrameEffects ==
    [][ /\ participants' # participants =>
            \E p \in Users :
                /\ \A u \in Users \ {p} : participants'[u] = participants[u]
                /\ \/ JoinChallengeResult(p, TRUE) = "Ok"
                   \/ RecordProofResult(factory.oracle, p) = "Ok"
                   \/ SettleParticipantResult(factory.oracle, p) = "Ok"
                   \/ ClaimPayoutResult(p) = "Ok"
                   \/ ClaimRefundResult(p) = "Ok"
                   \/ \E c \in CloseCalls(p) :
                        CloseParticipantResult(c[1], p, c[2]) = "Ok"
                /\ (participants'[p].is_settled /\ ~participants[p].is_settled)
                        => /\ vault' = vault
                           /\ UNCHANGED ledger
                           /\ challenge'.status = challenge.status
        /\ (challenge.status = "Ended" /\ challenge'.status = "Settled")
                => /\ vault' = vault
                   /\ UNCHANGED ledger
                   /\ participants' = participants ]_vars

\* The challenge has been finalized with a winner and a loser, whose
\* records differ, and every stake is still in the vault.
C29_Witness ==
    /\ Live
    /\ challenge.status = "Settled"
    /\ challenge.participant_count = NumUsers
    /\ vault.acct = "live"
    /\ vault.amount = challenge.participant_count * challenge.stake_amount
    /\ SumF(payout_paid, Users) = 0
    /\ treasury_paid = 0
    /\ \E a, b \in Users :
            /\ participants[a].is_settled /\ participants[a].is_winner
            /\ participants[a].proof_days > participants[b].proof_days
            /\ participants[b].is_settled /\ ~participants[b].is_winner

\* ---------------------------------------------------------------------------
\* C30  The clock never goes back, and join_challenge and record_proof are
\* never both enabled: no state lets one user join and a proof be recorded
\* for a participant.  From the moment start_ts is reached or the status
\* has left Created, participant_count does not change.  Every participant
\* joined before any proof was recorded: a proof is on record only when
\* start_ts has been reached and the status has left Created, and a join
\* happens only while no proof is on record.
C30_JoinBeforeProofs ==
    /\ [](\A u, v \in Users :
            ~( /\ JoinChallengeResult(u, TRUE) = "Ok"
               /\ RecordProofResult(factory.oracle, v) = "Ok" ))
    /\ [](\A u \in Users :
            participants[u].proof_days > 0
                => /\ now >= challenge.start_ts
                   /\ challenge.status # "Created"
                   /\ participants[u].joined)
    /\ [][ /\ now' >= now
           /\ challenge' # challenge =>
                /\ ( /\ Live /\ Live'
                      /\ (now >= challenge.start_ts \/ challenge.status # "Created") )
                        => challenge'.participant_count = challenge.participant_count
                /\ ( /\ Live /\ Live'
                      /\ challenge'.participant_count # challenge.participant_count )
                        => /\ \A u \in Users : participants[u].proof_days = 0
                           /\ now < challenge.start_ts
                           /\ challenge.status = "Created"
                           /\ challenge'.status = "Created" ]_vars

\* A proof is on record for one of two participants, and a user who has
\* not joined can no longer join.
C30_Witness ==
    /\ Live
    /\ challenge.status = "Started"
    /\ challenge.participant_count = 2
    /\ \E u, v, w \in Users :
            /\ participants[u].proof_days > 0
            /\ participants[v].joined /\ participants[v].proof_days = 0
            /\ participants[w].acct = "none"
            /\ JoinChallengeResult(w, TRUE) = "InvalidChallengeStatus"
            /\ RecordProofResult(factory.oracle, v) = "Ok"

\* start_ts is reached and no proof is recorded yet: the status is still
\* Created, a join is refused for the clock and a proof can be recorded.
C30_StartReachedCase ==
    /\ Live
    /\ challenge.status = "Created"
    /\ now >= challenge.start_ts
    /\ \E v, w \in Users :
            /\ JoinChallengeResult(w, TRUE) = "ChallengeStarted"
            /\ RecordProofResult(factory.oracle, v) = "Ok"

\* ---------------------------------------------------------------------------
\* C31  In every state payouts_claimed_count <= winner_count and
\* remainder_claimed <= remainder, and in status Settled every participant
\* record that exists has is_settled.  Three defensive failures are
\* therefore never returned: AllPayoutsClaimed by claim_payout, NotSettled by
\* claim_payout and close_participant, and PendingRemainderDistribution by
\* close_challenge; when every winner has claimed, the whole remainder has
\* been handed out.
C31_DefensiveChecksUnreachable ==
    /\ Live =>
        /\ challenge.payouts_claimed_count <= challenge.winner_count
        /\ challenge.remainder_claimed <= challenge.remainder
        /\ ( /\ challenge.status = "Settled"
              /\ challenge.winner_count > 0
              /\ challenge.payouts_claimed_count = challenge.winner_count )
                => challenge.remainder_claimed = challenge.remainder
        /\ challenge.status = "Settled" =>
                \A u \in Users :
                    participants[u].acct = "live" => participants[u].is_settled
    /\ \A u \in Users :
            /\ ClaimPayoutResult(u) \notin {"AllPayoutsClaimed", "NotSettled"}
            /\ \A c \in CloseCalls(u) :
                    CloseParticipantResult(c[1], u, c[2]) # "NotSettled"
    /\ \A creator \in CreatorKeys \cup {"o0"} :
            CloseChallengeResult(creator) # "PendingRemainderDistribution"

\* Two winners have claimed, the unit of remainder has been handed out, and
\* close_challenge gets past its remainder check to the records that remain.
C31_Witness ==
    /\ Live
    /\ challenge.status = "Settled"
    /\ challenge.winner_count = 2
    /\ challenge.payouts_claimed_count = challenge.winner_count
    /\ challenge.remainder = 1
    /\ challenge.remainder_claimed = challenge.remainder
    /\ CloseChallengeResult("c0") = "ParticipantsRemaining"
    /\ \E u \in Users : ClaimPayoutResult(u) = "PayoutAlreadyClaimed"
    /\ \E u \in Users : ClaimPayoutResult(u) = "NotWinner"

C33_CancelledCustody ==
    (Live /\ challenge.status = "Cancelled") =>
        LET joined == {u \in Users : participants[u].acct # "none"}
            unrefunded == {u \in Users : /\ participants[u].acct = "live"
                                         /\ participants[u].joined
                                         /\ ~participants[u].refund_claimed}
            deposited == [u \in Users |-> participants[u].stake_deposited]
        IN /\ vault.amount = SumF(deposited, unrefunded)
           /\ vault.amount
                = challenge.participant_count * challenge.stake_amount
                    - SumF(refund_paid, Users)
           /\ Cardinality(joined) = challenge.participant_count
           /\ \A u \in joined :
                /\ refund_paid[u] \in {0, challenge.stake_amount}
                /\ participants[u].acct = "closed"
                        => refund_paid[u] = challenge.stake_amount
                /\ participants[u].acct = "live"
                        => /\ participants[u].stake_deposited = challenge.stake_amount
                           /\ participants[u].refund_claimed
                                <=> refund_paid[u] = challenge.stake_amount
           /\ vault.amount = 0
                <=> \A u \in joined : refund_paid[u] = challenge.stake_amount
           /\ vault.acct = "closed" => vault.amount = 0

\* Of three participants of a cancelled challenge one has been refunded and
\* has closed the record, one has been refunded, and one stake is left in
\* the vault.
C33_Witness ==
    /\ Live
    /\ challenge.status = "Cancelled"
    /\ challenge.participant_count = 3
    /\ vault.amount = challenge.stake_amount
    /\ \E a, b, c \in Users :
            /\ participants[a].acct = "closed" /\ refund_paid[a] > 0
            /\ participants[b].acct = "live" /\ participants[b].refund_claimed
            /\ participants[c].acct = "live" /\ ~participants[c].refund_claimed

\* Every participant of a cancelled challenge has been refunded and the
\* vault is empty.
C33_AllRefundedCase ==
    /\ Live
    /\ challenge.status = "Cancelled"
    /\ challenge.participant_count >= 2
    /\ vault.acct = "live"
    /\ vault.amount = 0
    /\ SumF(refund_paid, Users)
            = challenge.participant_count * challenge.stake_amount

\* ---------------------------------------------------------------------------
\* C34  active_participants is the number of participant records that
\* exist; it equals participant_count while the status is Created, Started
\* or Ended, and afterwards falls short of it by the number of records
\* closed.  It is never taken below zero: no call of close_participant
\* fails at its checked_sub with MathOverflow.
C34_ActiveParticipants ==
    /\ Live =>
        LET existing == {u \in Users : participants[u].acct = "live"}
            closed == {u \in Users : participants[u].acct = "closed"}
        IN /\ challenge.active_participants = Cardinality(existing)
           /\ challenge.active_participants >= 0
           /\ challenge.participant_count
                = challenge.active_participants + Cardinality(closed)
           /\ challenge.status \in {"Created", "Started", "Ended"}
                => /\ challenge.active_participants = challenge.participant_count
                   /\ closed = {}
    /\ \A u \in Users : \A c \in CloseCalls(u) :
            /\ CloseParticipantResult(c[1], u, c[2]) # "MathOverflow"
            /\ CloseParticipantResult(c[1], u, c[2]) = "Ok"
                    => challenge.active_participants >= 1

\* Two of three records have been closed and the third can be closed.
C34_Witness ==
    /\ Live
    /\ challenge.participant_count = 3
    /\ challenge.active_participants = 1
    /\ Cardinality({u \in Users : participants[u].acct = "closed"}) = 2
    /\ \E u \in Users : CloseParticipantResult(u, u, u) = "Ok"

\* ---------------------------------------------------------------------------
\* C35  Whenever close_challenge succeeds the vault's balance is zero and no
\* participant record of the challenge exists, although close_challenge
\* reads neither: on the Settled path with winners the payouts add up to
\* every stake deposited, on the Settled path without winners the treasury
\* has received every stake, and on the Cancelled path the refunds add up
\* to every stake.
C35_CloseChallengeLeavesNothing ==
    \A c \in CloseCallers :
        CloseChallengeResult(c) = "Ok"
            => LET stakes == challenge.participant_count * challenge.stake_amount
               IN /\ vault.amount = 0
                  /\ \A u \in Users : participants[u].acct # "live"
                  /\ Cardinality({u \in Users : participants[u].acct = "closed"})
                        = challenge.participant_count
                  /\ (challenge.status = "Settled" /\ challenge.winner_count > 0)
                        => /\ SumF(payout_paid, Users) = stakes
                           /\ SumF(refund_paid, Users) = 0 /\ treasury_paid = 0
                  /\ (challenge.status = "Settled" /\ challenge.winner_count = 0)
                        => /\ treasury_paid = stakes
                           /\ SumF(payout_paid, Users) = 0
                           /\ SumF(refund_paid, Users) = 0
                  /\ challenge.status = "Cancelled"
                        => /\ SumF(refund_paid, Users) = stakes
                           /\ SumF(payout_paid, Users) = 0 /\ treasury_paid = 0

\* close_challenge succeeds for a challenge settled without winners, after
\* the treasury took the stakes, while the vault account is still open.
C35_Witness ==
    /\ Live
    /\ challenge.status = "Settled"
    /\ challenge.winner_count = 0
    /\ challenge.participant_count >= 2
    /\ treasury_paid > 0
    /\ vault.acct = "live"
    /\ CloseChallengeResult(challenge.creator) = "Ok"

\* close_challenge succeeds for a cancelled challenge whose participants
\* have been refunded.
C35_CancelledCase ==
    /\ Live
    /\ challenge.status = "Cancelled"
    /\ challenge.participant_count >= 2
    /\ CloseChallengeResult(challenge.creator) = "Ok"

\* close_challenge succeeds for a challenge settled with winners and a
\* loser.
C35_WinnersCase ==
    /\ Live
    /\ challenge.status = "Settled"
    /\ challenge.winner_count >= 1
    /\ challenge.loser_count >= 1
    /\ CloseChallengeResult(challenge.creator) = "Ok"

\* ---------------------------------------------------------------------------
\* C36  No challenge gets stuck.  With time advancing and the oracle, the
\* treasury, the creator and every participant scheduled fairly, every
\* challenge that has been created, also one nobody joined and one that
\* passed start_ts without a proof, eventually is Settled or Cancelled,
\* eventually has an empty vault in one of these statuses, and eventually
\* is closed by close_challenge.
C36_NoChallengeStuck ==
    /\ Live ~> (challenge.acct = "closed"
                    \/ challenge.status \in {"Settled", "Cancelled"})
    /\ Live ~> (challenge.acct = "closed"
                    \/ (challenge.status \in {"Settled", "Cancelled"}
                            /\ vault.amount = 0))
    /\ Live ~> (challenge.acct = "closed")
    /\ [][(Live /\ challenge'.acct = "closed")
            => /\ challenge.status \in {"Settled", "Cancelled"}
               /\ vault.amount = 0
               /\ \E creator \in CreatorKeys :
                    CloseChallengeResult(creator) = "Ok"]_vars

\* A challenge that nobody joined has been settled after its end and
\* closed, and the clock never saw a proof.
C36_Witness ==
    /\ challenge.acct = "closed"
    /\ \A u \in Users : participants[u].acct = "none"
    /\ treasury_paid = 0
    /\ now > MaxStart

\* A challenge with participants is past start_ts without a proof.
C36_NoProofCase ==
    /\ Live
    /\ challenge.status = "Created"
    /\ challenge.participant_count >= 2
    /\ now > challenge.end_ts

====
